---- MODULE Spec2Model ----
(***************************************************************************)
(* Model of the heuristic signal-aggregation layer of the chirp python-ai  *)
(* service: phoneme alignment (app/api/alignment.py), facial-geometry      *)
(* scoring and temporal aggregation (app/api/video_analysis.py) and        *)
(* prosody scoring / tone classification (app/api/audio_analysis.py).      *)
(*                                                                         *)
(* Numbers.  The code computes in binary floating point.  The model        *)
(* computes in exact rational arithmetic: a number is a pair <<n, d>> in   *)
(* lowest terms with d > 0.  Rounding error of the floating-point unit is  *)
(* therefore not modelled; every statement below about equality of times   *)
(* or sums is a statement about the exact values.  The one irrational      *)
(* operation, the Euclidean norm, is computed by an integer square root    *)
(* at a fixed resolution (see Norm3).                                      *)
(*                                                                         *)
(* Exceptions.  A Python exception is modelled by a result that carries    *)
(* raised = TRUE; each try/except of the code is the IF that inspects it.  *)
(***************************************************************************)
EXTENDS Integers, Sequences, FiniteSets, TLC

VARIABLES
    \* ---- alignment.py: one call of the alignment pipeline
    text,               \* request text (sequence of one-character strings)
    phonemes,           \* target phoneme list
    whisper_words,      \* word timestamps of the transcription
    total_duration,     \* clip duration in seconds
    transcribed_text,   \* transcription_result["text"]
    aligned_phonemes,   \* list of PhonemeAlignment
    alignment_score,    \* result of calculate_alignment_score
    align_pc,           \* position in the pipeline
    \* ---- video_analysis.py: temporal aggregation
    expressions,        \* per-frame emotion distributions
    gaze_directions,    \* per-frame gaze maps
    aggregated_expression,
    aggregated_gaze,
    aggregate_pc,       \* which aggregators have run
    \* ---- video_analysis.py: facial geometry of one frame
    landmark_array,     \* [n |-> number of points, pt |-> the points read]
    smile_prob,
    eye_contact_score,
    landmark_pc,        \* which scorers have run
    \* ---- audio_analysis.py: prosody of one clip
    pitch_features,
    energy_features,
    rhythm_features,
    prosody_score,
    tone_label,
    audio_pc,
    \* ---- model_manager.py: one call of the emotion classifier
    face_landmarks,
    emotions,
    emotion_pc,
    \* ---- video_analysis.py: one call of analyze_video_file
    video,              \* what cv2 and MediaPipe return for the file
    frame_count,
    analyzed,           \* the parallel per-frame lists of lines 125-129
    timestamps,
    video_result,
    video_pc,
    \* ---- main.py and the routers: one HTTP request
    model_manager,      \* the global of main.py: None or an initialized manager
    request,
    executed,           \* the steps of the handler that have run, in order
    response,
    attempts,           \* times the request was dispatched
    service_pc,
    \* ---- audio_analysis.py: what librosa computes from the loaded clip
    signal,
    \* ---- scenario_generation.py: one call of generate_scenario
    scenario_request,
    scenario_type,
    script,
    rubric,
    scenario_pc,
    \* ---- model_manager.py and the handlers: the event loop and the thread pool
    request_kind,
    handler_pc,
    event_loop,
    whisper_model,
    executor,
    cleanup_pc

alignVars == <<text, phonemes, whisper_words, total_duration, transcribed_text,
               aligned_phonemes, alignment_score, align_pc>>

aggregateVars == <<expressions, gaze_directions, aggregated_expression,
                   aggregated_gaze, aggregate_pc>>

landmarkVars == <<landmark_array, smile_prob, eye_contact_score, landmark_pc>>

audioVars == <<pitch_features, energy_features, rhythm_features, prosody_score,
               tone_label, audio_pc>>

emotionVars == <<face_landmarks, emotions, emotion_pc>>

videoVars == <<video, frame_count, analyzed, timestamps, video_result, video_pc>>

serviceVars == <<model_manager, request, executed, response, attempts, service_pc>>

extractVars == <<signal>>

scenarioVars == <<scenario_request, scenario_type, script, rubric, scenario_pc>>

poolVars == <<request_kind, handler_pc, event_loop, whisper_model, executor, cleanup_pc>>

vars == <<alignVars, aggregateVars, landmarkVars, audioVars, emotionVars, videoVars, serviceVars, extractVars, scenarioVars, poolVars>>

None == "None"

\* a pipeline that is not running in the specification at hand
IdleAlignment ==
    /\ text = <<>> /\ phonemes = <<>> /\ whisper_words = <<>>
    /\ total_duration = None /\ transcribed_text = None
    /\ aligned_phonemes = <<>> /\ alignment_score = None /\ align_pc = "idle"

IdleAggregate ==
    /\ expressions = <<>> /\ gaze_directions = <<>>
    /\ aggregated_expression = None /\ aggregated_gaze = None
    /\ aggregate_pc = {"idle"}

IdleLandmarks ==
    /\ landmark_array = None /\ smile_prob = None /\ eye_contact_score = None
    /\ landmark_pc = {"idle"}

IdleAudio ==
    /\ pitch_features = None /\ energy_features = None /\ rhythm_features = None
    /\ prosody_score = None /\ tone_label = None /\ audio_pc = "idle"

IdleEmotion ==
    /\ face_landmarks = None /\ emotions = None /\ emotion_pc = "idle"

Pending == [status |-> "pending"]

IdleVideo ==
    /\ video = None /\ frame_count = 0 /\ analyzed = <<>> /\ timestamps = <<>>
    /\ video_result = Pending /\ video_pc = "idle"

IdleService ==
    /\ model_manager = None /\ request = None /\ executed = <<>>
    /\ response = Pending /\ attempts = 0 /\ service_pc = "idle"

IdleExtract == signal = None

IdleScenario ==
    /\ scenario_request = None /\ scenario_type = None /\ script = None
    /\ rubric = None /\ scenario_pc = "idle"

IdlePool ==
    /\ request_kind = <<>> /\ handler_pc = <<>> /\ event_loop = None
    /\ whisper_model = None /\ executor = <<>> /\ cleanup_pc = "idle"

-----------------------------------------------------------------------------
(* Bounds of the model *)

\* longest phoneme list handed to the aligner directly
MaxPhonemes == 8
\* longest word-timestamp list
MaxWords == 2

-----------------------------------------------------------------------------
(* Exact rational arithmetic standing for Python float arithmetic *)

Abs(x) == IF x < 0 THEN -x ELSE x

Min(a, b) == IF a <= b THEN a ELSE b

Max(a, b) == IF a >= b THEN a ELSE b

RECURSIVE GCD(_, _)
GCD(a, b) == IF b = 0 THEN a ELSE GCD(b, a % b)

\* n/d in lowest terms, d > 0
Rat(n, d) ==
    LET s == IF d < 0 THEN -1 ELSE 1
        g == GCD(Abs(n), Abs(d))
    IN  <<(s * n) \div g, (s * d) \div g>>

RInt(n) == <<n, 1>>

Zero == <<0, 1>>

One == <<1, 1>>

RAdd(a, b) == Rat(a[1] * b[2] + b[1] * a[2], a[2] * b[2])

RSub(a, b) == Rat(a[1] * b[2] - b[1] * a[2], a[2] * b[2])

RMul(a, b) == Rat(a[1] * b[1], a[2] * b[2])

\* the result of a division by zero: Python raises ZeroDivisionError
ZeroDivisionError == <<1, 0>>

\* a / b
RDiv(a, b) == IF b[1] = 0 THEN ZeroDivisionError ELSE Rat(a[1] * b[2], a[2] * b[1])

RLt(a, b) == a[1] * b[2] < b[1] * a[2]

RLe(a, b) == a[1] * b[2] <= b[1] * a[2]

RMin(a, b) == IF RLt(b, a) THEN b ELSE a

RMax(a, b) == IF RLt(a, b) THEN b ELSE a

RAbs(a) == <<Abs(a[1]), a[2]>>

RECURSIVE RSum(_)
RSum(s) == IF s = <<>> THEN Zero ELSE RAdd(s[1], RSum(Tail(s)))

-----------------------------------------------------------------------------
(* Text: a str is a sequence of one-character strings *)

Space == " "

Tab == "\t"

IsSpace(c) == c \in {Space, Tab}

Upper ==
    [A |-> "a", B |-> "b", E |-> "e", F |-> "f", H |-> "h", I |-> "i", L |-> "l",
     O |-> "o", P |-> "p", X |-> "x"]

\* str.lower(), character by character
LowerChar(c) == IF c \in DOMAIN Upper THEN Upper[c] ELSE c

Lower(s) == [i \in 1..Len(s) |-> LowerChar(s[i])]

\* str.split(): maximal runs of non-whitespace characters, in order
RECURSIVE SplitFrom(_, _, _)
SplitFrom(s, i, cur) ==
    IF i > Len(s)
    THEN IF cur = <<>> THEN <<>> ELSE <<cur>>
    ELSE IF IsSpace(s[i])
         THEN (IF cur = <<>> THEN <<>> ELSE <<cur>>) \o SplitFrom(s, i + 1, <<>>)
         ELSE SplitFrom(s, i + 1, Append(cur, s[i]))

Split(s) == SplitFrom(s, 1, <<>>)

\* str.replace(' ', ''): only the space character is removed
RemoveSpaces(s) == SelectSeq(s, LAMBDA c : c # Space)

phoneme_map ==
    [a |-> "aa", e |-> "eh", i |-> "ih", o |-> "oh", u |-> "uh",
     b |-> "b", c |-> "k", d |-> "d", f |-> "f", g |-> "g",
     h |-> "hh", j |-> "jh", k |-> "k", l |-> "l", m |-> "m",
     n |-> "n", p |-> "p", q |-> "k", r |-> "r", s |-> "s",
     t |-> "t", v |-> "v", w |-> "w", x |-> "ks", y |-> "y", z |-> "z"]

\* a letter that is not a key of phoneme_map
OtherLetters == {"é"}

\* str.isalpha() on one lower-cased character of the model's alphabet
IsAlpha(c) == c \in (DOMAIN phoneme_map) \cup OtherLetters

\* phoneme_map.get(char, char)
phoneme_of(char) == IF char \in DOMAIN phoneme_map THEN phoneme_map[char] ELSE char

\* the inner loop of lines 198-200 with the isalpha() test left out
RECURSIVE WordPhonemes_unfiltered(_)
WordPhonemes_unfiltered(word) ==
    IF word = <<>> THEN <<>>
    ELSE <<phoneme_of(word[1])>> \o WordPhonemes_unfiltered(Tail(word))

RECURSIVE WordPhonemes(_)
WordPhonemes(word) ==
    IF word = <<>> THEN <<>>
    ELSE (IF IsAlpha(word[1]) THEN <<phoneme_of(word[1])>> ELSE <<>>)
         \o WordPhonemes(Tail(word))

RECURSIVE WordsPhonemes(_)
WordsPhonemes(words) ==
    IF words = <<>> THEN <<>>
    ELSE <<"sil">> \o WordPhonemes(words[1]) \o WordsPhonemes(Tail(words))

text_to_phonemes(t) == WordsPhonemes(Split(Lower(t))) \o <<"sil">>

-----------------------------------------------------------------------------
(* alignment.py *)

PhonemeAlignment(p, s, e, c) == [phoneme |-> p, start |-> s, end |-> e, confidence |-> c]

EvenConfidence == <<1, 2>>

\* distribute_phonemes_evenly with the slice index taken one too far
distribute_phonemes_shifted(ph, D) ==
    IF ph = <<>> THEN <<>>
    ELSE LET phoneme_duration == RDiv(D, RInt(Len(ph)))
         IN  [k \in 1..Len(ph) |->
                LET start_time == RMul(RInt(k), phoneme_duration)
                IN  PhonemeAlignment(ph[k], start_time,
                                     RAdd(start_time, phoneme_duration),
                                     EvenConfidence)]

distribute_phonemes_evenly(ph, D) ==
    IF ph = <<>> THEN <<>>
    ELSE LET phoneme_duration == RDiv(D, RInt(Len(ph)))
         IN  [k \in 1..Len(ph) |->
                LET start_time == RMul(RInt(k - 1), phoneme_duration)
                IN  PhonemeAlignment(ph[k], start_time,
                                     RAdd(start_time, phoneme_duration),
                                     EvenConfidence)]

\* A value that float() rejects (a non-numeric string): ValueError
NotANumber == <<0, 0>>

FloatRaises(x) == x = NotANumber

\* dict.get(key, default)
Get(dict, key, default) == IF key \in DOMAIN dict THEN dict[key] ELSE default

DefaultWordSpan == <<1, 2>>

DefaultProbability == <<4, 5>>

\* list.index(x): 0-based position of the first element equal to x
ListIndex(list, x) ==
    (CHOOSE i \in 1..Len(list) :
        list[i] = x /\ \A j \in 1..(i - 1) : list[j] # x) - 1

phonemes_per_word(ph, original_text) ==
    Len(ph) \div Max(1, Len(Split(Lower(original_text))))

phonemes_for_word(ppw, remaining_phonemes, remaining_words) ==
    IF remaining_words > 0
    THEN Min(ppw,
             (remaining_phonemes \div remaining_words)
               + (IF remaining_phonemes % remaining_words > 0 THEN 1 ELSE 0))
    ELSE remaining_phonemes

\* word_entries with the sub-interval index taken one too far
word_entries_shifted(ph, phoneme_idx, n, word_start, word_duration, confidence) ==
    IF n > 0
    THEN LET phoneme_duration == RDiv(word_duration, RInt(n))
             m == Min(n, Len(ph) - phoneme_idx)
         IN  [i \in 1..m |->
                LET phoneme_start == RAdd(word_start, RMul(RInt(i), phoneme_duration))
                IN  PhonemeAlignment(ph[phoneme_idx + i], phoneme_start,
                                     RAdd(phoneme_start, phoneme_duration),
                                     confidence)]
    ELSE <<>>

\* the entries one word contributes (the inner for loop, lines 247-262)
word_entries(ph, phoneme_idx, n, word_start, word_duration, confidence) ==
    IF n > 0
    THEN LET phoneme_duration == RDiv(word_duration, RInt(n))
             m == Min(n, Len(ph) - phoneme_idx)
         IN  [i \in 1..m |->
                LET phoneme_start == RAdd(word_start, RMul(RInt(i - 1), phoneme_duration))
                IN  PhonemeAlignment(ph[phoneme_idx + i], phoneme_start,
                                     RAdd(phoneme_start, phoneme_duration),
                                     confidence)]
    ELSE <<>>

\* the for loop over whisper_words (lines 228-262), from word k on.
\* counts records phonemes_for_word of each word visited.
RECURSIVE word_loop(_, _, _, _, _, _, _)
word_loop(ph, words, ppw, k, phoneme_idx, aligned, counts) ==
    IF k > Len(words)
    THEN [raised |-> FALSE, phoneme_idx |-> phoneme_idx, aligned |-> aligned,
          counts |-> counts]
    ELSE
      LET word_info == words[k]
          raw_start == Get(word_info, "start", Zero)
      IN
      IF FloatRaises(raw_start)
      THEN [raised |-> TRUE, phoneme_idx |-> phoneme_idx, aligned |-> aligned,
            counts |-> counts]
      ELSE
        LET word_start == raw_start
            raw_end == Get(word_info, "end", RAdd(word_start, DefaultWordSpan))
            raw_prob == Get(word_info, "probability", DefaultProbability)
        IN
        IF FloatRaises(raw_end) \/ FloatRaises(raw_prob)
        THEN [raised |-> TRUE, phoneme_idx |-> phoneme_idx, aligned |-> aligned,
              counts |-> counts]
        ELSE
          LET word_duration == RSub(raw_end, word_start)
              remaining_phonemes == Len(ph) - phoneme_idx
              remaining_words == Len(words) - ListIndex(words, word_info)
              n == phonemes_for_word(ppw, remaining_phonemes, remaining_words)
              new == word_entries(ph, phoneme_idx, n, word_start, word_duration, raw_prob)
          IN  word_loop(ph, words, ppw, k + 1, phoneme_idx + Len(new),
                        aligned \o new, Append(counts, n))

LeftoverDuration == <<1, 10>>

\* leftover_loop that drops the phonemes no word took
leftover_loop_dropped(ph, phoneme_idx, aligned) == aligned

\* the while loop appending the remaining phonemes (lines 265-276)
RECURSIVE leftover_loop(_, _, _)
leftover_loop(ph, phoneme_idx, aligned) ==
    IF phoneme_idx < Len(ph)
    THEN LET last_end == IF aligned # <<>> THEN aligned[Len(aligned)].end ELSE Zero
         IN  leftover_loop(ph, phoneme_idx + 1,
                           Append(aligned,
                                  PhonemeAlignment(ph[phoneme_idx + 1], last_end,
                                                   RAdd(last_end, LeftoverDuration),
                                                   EvenConfidence)))
    ELSE aligned

\* the state of the try block after the word loop
align_words(ph, words, original_text) ==
    word_loop(ph, words, phonemes_per_word(ph, original_text), 1, 0, <<>>, <<>>)

align_phonemes_to_words(ph, words, original_text, D) ==
    IF words = <<>>
    THEN distribute_phonemes_evenly(ph, D)
    ELSE LET r == align_words(ph, words, original_text)
         IN  IF r.raised
             THEN distribute_phonemes_evenly(ph, D)
             ELSE leftover_loop(ph, r.phoneme_idx, r.aligned)

\* set(s.lower().split())
WordSet(s) == {Split(Lower(s))[i] : i \in 1..Len(Split(Lower(s)))}

text_similarity(transcribed, target) ==
    LET transcribed_words == WordSet(transcribed)
        target_words == WordSet(target)
        intersection == Cardinality(transcribed_words \cap target_words)
        union == Cardinality(transcribed_words \cup target_words)
    IN  IF union > 0 THEN RDiv(RInt(intersection), RInt(union)) ELSE Zero

\* line 331, before the cap of line 332
coverage_ratio(target, aligned) ==
    RDiv(RInt(Len(aligned)), RInt(Max(1, Len(RemoveSpaces(target)))))

avg_confidence(aligned) ==
    IF aligned # <<>>
    THEN RDiv(RSum([i \in 1..Len(aligned) |-> aligned[i].confidence]),
              RInt(Len(aligned)))
    ELSE Zero

\* the score returned without the clamp
clamp_alignment_score_missing(x) == x

\* line 343: min(1.0, max(0.0, alignment_score))
clamp_alignment_score(x) == RMin(One, RMax(Zero, x))

\* the value returned by the except branch (line 347)
ScoreOnError == <<1, 2>>

\* whether the try block of calculate_alignment_score raises
score_raises(transcribed, target, aligned) ==
    /\ WordSet(target) # {}
    /\ \/ text_similarity(transcribed, target) = ZeroDivisionError
       \/ coverage_ratio(target, aligned) = ZeroDivisionError
       \/ avg_confidence(aligned) = ZeroDivisionError

calculate_alignment_score(transcribed, target, aligned) ==
    IF WordSet(target) = {}
    THEN Zero
    ELSE IF score_raises(transcribed, target, aligned)
         THEN ScoreOnError
         ELSE clamp_alignment_score(
                RAdd(RAdd(RMul(text_similarity(transcribed, target), <<1, 2>>),
                          RMul(RMin(One, coverage_ratio(target, aligned)), <<3, 10>>)),
                     RMul(avg_confidence(aligned), <<1, 5>>)))

-----------------------------------------------------------------------------
(* Inputs of the alignment pipeline *)

Texts ==
    { <<>>,
      <<"H", "i">>,
      <<"h", "i", " ", "b", "o", "b">>,
      <<"a", "\t", "b", " ", "x", "!">> }

Transcripts ==
    { <<>>,
      <<"h", "i">>,
      <<"h", "i", " ", "b", "o", "b">> }

PhonemeNames == <<"sil", "hh", "ih", "b", "oh", "k", "aa", "t", "s", "eh", "l", "m">>

\* the phoneme lists handed to the aligner directly: every length up to MaxPhonemes
PhonemeLists == {SubSeq(PhonemeNames, 1, n) : n \in 0..MaxPhonemes}

\* word dicts as the transcription collaborator returns them
WordInfos ==
    { [word |-> "hi", start |-> Zero, end |-> <<3, 10>>, probability |-> <<9, 10>>],
      [word |-> "bob", start |-> <<2, 5>>, end |-> <<9, 10>>, probability |-> <<4, 5>>],
      \* a span that begins before the span of "hi" has ended
      [word |-> "bob", start |-> <<1, 5>>, end |-> <<1, 2>>, probability |-> <<4, 5>>],
      \* an empty span and a probability outside [0,1]
      [word |-> "x", start |-> <<9, 10>>, end |-> <<9, 10>>, probability |-> <<3, 2>>],
      \* no "end" and no "probability" key
      [word |-> "a", start |-> <<1, 5>>],
      \* a start that float() rejects
      [word |-> "b", start |-> NotANumber, end |-> One, probability |-> One] }

RECURSIVE SeqsUpTo(_, _)
SeqsUpTo(S, n) ==
    IF n = 0 THEN {<<>>}
    ELSE LET shorter == SeqsUpTo(S, n - 1)
         IN  shorter \cup {Append(q, x) : q \in {r \in shorter : Len(r) = n - 1}, x \in S}

WordLists == SeqsUpTo(WordInfos, MaxWords)

Durations == {Zero, <<9, 10>>, <<3, 2>>}

-----------------------------------------------------------------------------
(* The alignment pipeline (align_text_audio, lines 122-162) and the direct   *)
(* calls of its functions                                                    *)

InitAlignment ==
    /\ text \in Texts
    /\ phonemes \in PhonemeLists
    /\ whisper_words \in WordLists
    /\ total_duration \in Durations
    /\ transcribed_text = None
    /\ aligned_phonemes = <<>>
    /\ alignment_score = None
    /\ align_pc = "input"
    /\ IdleAggregate /\ IdleLandmarks /\ IdleAudio /\ IdleEmotion /\ IdleVideo /\ IdleService /\ IdleExtract /\ IdleScenario /\ IdlePool

\* line 141: target_phonemes = text_to_phonemes(text)
TextToPhonemes ==
    /\ align_pc = "input"
    /\ phonemes' = text_to_phonemes(text)
    /\ align_pc' = "phonemes"
    /\ UNCHANGED <<text, whisper_words, total_duration, transcribed_text,
                   aligned_phonemes, alignment_score>>
    /\ UNCHANGED <<aggregateVars, landmarkVars, audioVars, emotionVars, videoVars, serviceVars, extractVars, scenarioVars, poolVars>>

\* a call of distribute_phonemes_evenly(phonemes, total_duration)
DistributePhonemesEvenly ==
    /\ align_pc \in {"input", "phonemes"}
    /\ aligned_phonemes' = distribute_phonemes_evenly(phonemes, total_duration)
    /\ align_pc' = "distributed"
    /\ UNCHANGED <<text, phonemes, whisper_words, total_duration, transcribed_text,
                   alignment_score>>
    /\ UNCHANGED <<aggregateVars, landmarkVars, audioVars, emotionVars, videoVars, serviceVars, extractVars, scenarioVars, poolVars>>

\* lines 144-149: align_phonemes_to_words(target_phonemes, whisper_words, text, duration)
AlignPhonemesToWords ==
    /\ align_pc \in {"input", "phonemes"}
    /\ aligned_phonemes' =
          align_phonemes_to_words(phonemes, whisper_words, text, total_duration)
    /\ align_pc' = "aligned"
    /\ UNCHANGED <<text, phonemes, whisper_words, total_duration, transcribed_text,
                   alignment_score>>
    /\ UNCHANGED <<aggregateVars, landmarkVars, audioVars, emotionVars, videoVars, serviceVars, extractVars, scenarioVars, poolVars>>

\* lines 152-156: calculate_alignment_score(transcription_result.get("text", ""), text, aligned)
CalculateAlignmentScore ==
    /\ align_pc = "aligned"
    /\ \E t \in Transcripts :
         /\ transcribed_text' = t
         /\ alignment_score' = calculate_alignment_score(t, text, aligned_phonemes)
    /\ align_pc' = "scored"
    /\ UNCHANGED <<text, phonemes, whisper_words, total_duration, aligned_phonemes>>
    /\ UNCHANGED <<aggregateVars, landmarkVars, audioVars, emotionVars, videoVars, serviceVars, extractVars, scenarioVars, poolVars>>

NextAlignment ==
    \/ TextToPhonemes
    \/ DistributePhonemesEvenly
    \/ AlignPhonemesToWords
    \/ CalculateAlignmentScore

SpecAlignment == InitAlignment /\ [][NextAlignment]_vars

-----------------------------------------------------------------------------
(* text_to_phonemes called on its own, over every short text of a small     *)
(* alphabet: letters of the table in both cases, a letter outside the       *)
(* table, two kinds of whitespace and a character that is no letter         *)

\* longest text enumerated character by character
MaxTextLen == 4

TextAlphabet == {"h", "I", "x", "c", "é", "!", Space, Tab}

BoundedTexts == SeqsUpTo(TextAlphabet, MaxTextLen)

InitTextToPhonemes ==
    /\ text \in BoundedTexts \cup Texts
    /\ phonemes = <<>>
    /\ whisper_words = <<>>
    /\ total_duration = None
    /\ transcribed_text = None
    /\ aligned_phonemes = <<>>
    /\ alignment_score = None
    /\ align_pc = "input"
    /\ IdleAggregate /\ IdleLandmarks /\ IdleAudio /\ IdleEmotion /\ IdleVideo /\ IdleService /\ IdleExtract /\ IdleScenario /\ IdlePool

NextTextToPhonemes == TextToPhonemes

SpecTextToPhonemes == InitTextToPhonemes /\ [][NextTextToPhonemes]_vars

-----------------------------------------------------------------------------
(* Properties of alignment.py *)

RECURSIVE SumSeq(_)
SumSeq(q) == IF q = <<>> THEN 0 ELSE q[1] + SumSeq(Tail(q))

\* a number, and one of [0,1]
InUnitInterval(x) == x[2] > 0 /\ RLe(Zero, x) /\ RLe(x, One)

\* C1: for a non-empty phoneme list of length n and a duration D > 0,
\* distribute_phonemes_evenly returns n entries in phoneme order, the i-th
\* (0-based) spanning [i*D/n, (i+1)*D/n] with confidence 0.5; the first starts
\* at 0, the last ends at D and each entry ends where the next one starts.
C1_EvenDistribution ==
    (align_pc = "distributed" /\ phonemes # <<>> /\ RLt(Zero, total_duration)) =>
        LET n == Len(phonemes)
            D == total_duration
            a == aligned_phonemes
        IN  /\ Len(a) = n
            /\ \A i \in 1..n :
                 /\ a[i].phoneme = phonemes[i]
                 /\ a[i].start = Rat((i - 1) * D[1], n * D[2])
                 /\ a[i].end = Rat(i * D[1], n * D[2])
                 /\ a[i].confidence = <<1, 2>>
            /\ a[1].start = Zero
            /\ a[n].end = D
            /\ \A i \in 1..(n - 1) : a[i].end = a[i + 1].start

C1_Witness ==
    /\ align_pc = "distributed"
    /\ Len(phonemes) = 3
    /\ total_duration = <<3, 2>>
    /\ Len(aligned_phonemes) = 3
    /\ aligned_phonemes[2].start = <<1, 2>>

\* C2: for every phoneme list, word-timestamp list and text,
\* align_phonemes_to_words returns exactly len(phonemes) entries and the i-th
\* entry carries phonemes[i].
C2_AllPhonemesInOrder ==
    align_pc = "aligned" =>
        /\ Len(aligned_phonemes) = Len(phonemes)
        /\ \A i \in 1..Len(phonemes) : aligned_phonemes[i].phoneme = phonemes[i]

\* fewer timestamped words than text words, and phonemes no word took
C2_Witness ==
    /\ align_pc = "aligned"
    /\ whisper_words # <<>>
    /\ Len(whisper_words) < Len(Split(Lower(text)))
    /\ ~align_words(phonemes, whisper_words, text).raised
    /\ 0 < align_words(phonemes, whisper_words, text).phoneme_idx
    /\ align_words(phonemes, whisper_words, text).phoneme_idx < Len(phonemes)
    /\ Len(aligned_phonemes) = Len(phonemes)

\* C3: calculate_alignment_score returns a value in [0,1], none of its
\* divisions has a zero divisor, and the value is 0.0 when the target text has
\* no words.
C3_ScoreInUnitInterval ==
    align_pc = "scored" =>
        /\ InUnitInterval(alignment_score)
        /\ text_similarity(transcribed_text, text) # ZeroDivisionError
        /\ coverage_ratio(text, aligned_phonemes) # ZeroDivisionError
        /\ avg_confidence(aligned_phonemes) # ZeroDivisionError
        /\ (Split(Lower(text)) = <<>> => alignment_score = Zero)

\* the weighted sum exceeds 1 before the clamp: confidences of 1.5
C3_Witness ==
    /\ align_pc = "scored"
    /\ alignment_score = One
    /\ aligned_phonemes # <<>>
    /\ \A i \in 1..Len(aligned_phonemes) : aligned_phonemes[i].confidence = <<3, 2>>
    /\ transcribed_text = Lower(text)

WellFormedWord(w) ==
    /\ {"start", "end", "probability"} \subseteq DOMAIN w
    /\ ~FloatRaises(w.start) /\ ~FloatRaises(w.end) /\ ~FloatRaises(w.probability)
    /\ RLe(w.start, w.end)

WellFormedWords(ws) == ws # <<>> /\ \A k \in 1..Len(ws) : WellFormedWord(ws[k])

HiBobText == <<"h", "i", " ", "b", "o", "b">>

HiBobWords ==
    << [word |-> "hi", start |-> Zero, end |-> <<3, 10>>, probability |-> <<9, 10>>],
       [word |-> "bob", start |-> <<2, 5>>, end |-> <<9, 10>>, probability |-> <<4, 5>>] >>

\* C10: with a non-empty list of words with start <= end, the entries of the
\* k-th word split [start, end] of that word into equal contiguous
\* sub-intervals and carry its probability; every entry after them lasts 0.1 s,
\* has confidence 0.5 and starts at the end of the previous entry (0.0 if there
\* is none).  "hi bob" over hi[0.0,0.3] bob[0.4,0.9] gives 8 entries, 4 in each
\* word and no leftover.
C10_EntriesInsideWordsOrLeftover ==
    (align_pc = "aligned" /\ WellFormedWords(whisper_words)) =>
        LET a == aligned_phonemes
            counts == align_words(phonemes, whisper_words, text).counts
            allocated == SumSeq(counts)
        IN  /\ Len(counts) = Len(whisper_words)
            /\ allocated <= Len(a)
            /\ \A k \in 1..Len(counts) : \A j \in 1..counts[k] :
                 LET w == whisper_words[k]
                     e == a[SumSeq(SubSeq(counts, 1, k - 1)) + j]
                     span == RSub(w.end, w.start)
                 IN  /\ e.start = RAdd(w.start, RDiv(RMul(RInt(j - 1), span), RInt(counts[k])))
                     /\ e.end = RAdd(w.start, RDiv(RMul(RInt(j), span), RInt(counts[k])))
                     /\ RLe(w.start, e.start) /\ RLe(e.start, e.end) /\ RLe(e.end, w.end)
                     /\ e.confidence = w.probability
            /\ \A i \in (allocated + 1)..Len(a) :
                 /\ RSub(a[i].end, a[i].start) = <<1, 10>>
                 /\ a[i].confidence = <<1, 2>>
                 /\ a[i].start = (IF i = 1 THEN Zero ELSE a[i - 1].end)
            /\ (text = HiBobText /\ phonemes = text_to_phonemes(text)
                  /\ whisper_words = HiBobWords) =>
                    (Len(a) = 8 /\ counts = <<4, 4>>)

\* allocated entries followed by leftovers
C10_Witness ==
    /\ align_pc = "aligned"
    /\ WellFormedWords(whisper_words)
    /\ SumSeq(align_words(phonemes, whisper_words, text).counts) > 0
    /\ SumSeq(align_words(phonemes, whisper_words, text).counts) < Len(aligned_phonemes)
    /\ Len(whisper_words) = 2

\* the word list is in non-decreasing start order
StartOrdered(ws) == \A k \in 1..(Len(ws) - 1) : RLe(ws[k].start, ws[k + 1].start)

\* C13: for every phoneme list and every word list in non-decreasing start
\* order with start <= end and probability in [0,1] per word (spans may touch
\* or overlap), align_phonemes_to_words returns entries whose start times are
\* non-decreasing from one entry to the next and whose confidences lie in
\* [0,1].
C13_MonotoneStarts ==
    ( /\ align_pc = "aligned"
      /\ WellFormedWords(whisper_words)
      /\ StartOrdered(whisper_words)
      /\ \A k \in 1..Len(whisper_words) : InUnitInterval(whisper_words[k].probability) ) =>
        /\ \A i \in 1..(Len(aligned_phonemes) - 1) :
             RLe(aligned_phonemes[i].start, aligned_phonemes[i + 1].start)
        /\ \A i \in 1..Len(aligned_phonemes) :
             InUnitInterval(aligned_phonemes[i].confidence)

-----------------------------------------------------------------------------
(* Properties of text_to_phonemes *)

\* positions at which a whitespace-separated word of t begins
WordStarts(t) == {i \in 1..Len(t) : ~IsSpace(t[i]) /\ (i = 1 \/ IsSpace(t[i - 1]))}

\* the k-th smallest element of a set of positions
KthOf(S, k) == CHOOSE i \in S : Cardinality({j \in S : j <= i}) = k

\* the word of t that begins at position s
WordAt(t, s) ==
    LET e == CHOOSE j \in s..Len(t) :
                /\ \A m \in s..j : ~IsSpace(t[m])
                /\ (j = Len(t) \/ IsSpace(t[j + 1]))
    IN  SubSeq(t, s, e)

\* the table as the specification states it
TableSymbol(c) ==
    CASE c = "c" -> "k" [] c = "q" -> "k" [] c = "x" -> "ks"
      [] c = "h" -> "hh" [] c = "j" -> "jh"
      [] c = "a" -> "aa" [] c = "e" -> "eh" [] c = "i" -> "ih"
      [] c = "o" -> "oh" [] c = "u" -> "uh"
      [] OTHER -> c

\* one symbol per alphabetic character of a word, in order
WordSymbols(word) ==
    LET letters == SelectSeq(Lower(word), IsAlpha)
    IN  [i \in 1..Len(letters) |-> TableSymbol(letters[i])]

SilPositions(p) == {i \in 1..Len(p) : p[i] = "sil"}

\* C11: for a text with w >= 1 whitespace-separated words, text_to_phonemes
\* returns exactly w+1 sil markers, one before the symbols of each word and one
\* at the very end; between two consecutive markers stands one symbol per
\* alphabetic character of that word, in order, from the table after
\* lower-casing; other characters give no symbol.  The length is w + 1 + the
\* number of alphabetic characters; "hi bob" gives sil hh ih sil b oh b sil.
C11_MarkersAndSymbols ==
    (align_pc = "phonemes" /\ WordStarts(text) # {}) =>
        LET p == phonemes
            w == Cardinality(WordStarts(text))
            sil == SilPositions(p)
        IN  /\ \A c \in DOMAIN phoneme_map : phoneme_map[c] = TableSymbol(c)
            /\ Cardinality(sil) = w + 1
            /\ p[1] = "sil"
            /\ p[Len(p)] = "sil"
            /\ \A k \in 1..w :
                 SubSeq(p, KthOf(sil, k) + 1, KthOf(sil, k + 1) - 1)
                   = WordSymbols(WordAt(text, KthOf(WordStarts(text), k)))
            /\ Len(p) = w + 1 + Len(SelectSeq(Lower(text), IsAlpha))
            /\ (text = <<"h", "i", " ", "b", "o", "b">>) =>
                  p = <<"sil", "hh", "ih", "sil", "b", "oh", "b", "sil">>

\* two words, an upper-case letter and a character that gives no symbol
C11_Witness ==
    /\ align_pc = "phonemes"
    /\ text = <<"I", "!", Tab, "x">>
    /\ phonemes = <<"sil", "ih", "sil", "ks", "sil">>

\* C12: for an empty text and for a text of whitespace only, text_to_phonemes
\* returns the two-element sequence sil, sil.
C12_EmptyTextTwoMarkers ==
    (align_pc = "phonemes" /\ WordStarts(text) = {}) =>
        phonemes = <<"sil", "sil">>

-----------------------------------------------------------------------------
(* video_analysis.py: temporal aggregators.  A dict is a function from its  *)
(* keys to numbers.                                                         *)

\* most frames in one aggregated sequence
MaxFrames == 3

RECURSIVE SumOver(_, _)
SumOver(d, keys) ==
    IF keys = {} THEN Zero
    ELSE LET k == CHOOSE x \in keys : TRUE
         IN  RAdd(d[k], SumOver(d, keys \ {k}))

\* sum(d.values())
DictSum(d) == SumOver(d, DOMAIN d)

\* the value accumulated under one key over all frames that carry the key
RECURSIVE KeySum(_, _, _)
KeySum(frames, key, i) ==
    IF i > Len(frames) THEN Zero
    ELSE RAdd(IF key \in DOMAIN frames[i] THEN frames[i][key] ELSE Zero,
              KeySum(frames, key, i + 1))

AllKeys(frames) == UNION {DOMAIN frames[i] : i \in 1..Len(frames)}

NeutralExpression == [neutral |-> One]

\* lines 352-355: divide by the total when it is positive
normalize_expression(aggregated) ==
    LET total_prob == DictSum(aggregated)
    IN  IF RLt(Zero, total_prob)
        THEN [k \in DOMAIN aggregated |-> RDiv(aggregated[k], total_prob)]
        ELSE aggregated

aggregate_expressions(exprs) ==
    IF exprs = <<>>
    THEN NeutralExpression
    ELSE LET num_expressions == Len(exprs)
             aggregated == [emotion \in AllKeys(exprs) |->
                              RDiv(KeySum(exprs, emotion, 1), RInt(num_expressions))]
         IN  normalize_expression(aggregated)

Directions == {"left", "center", "right"}

DefaultGaze == [left |-> <<33, 100>>, center |-> <<17, 50>>, right |-> <<33, 100>>]

\* the per-label means of lines 364-375, with no guard for an empty list
gaze_means(gazes) ==
    [direction \in Directions |->
        RDiv(KeySum(gazes, direction, 1), RInt(Len(gazes)))]

\* aggregate_gaze_directions without the check of lines 361-362
aggregate_gaze_unguarded(gazes) ==
    IF AllKeys(gazes) \subseteq Directions
    THEN [raised |-> FALSE, value |-> gaze_means(gazes)]
    ELSE [raised |-> TRUE, value |-> DefaultGaze]

\* raised: direction_sums[direction] += prob is a KeyError for a key that is
\* not one of the three directions (line 368)
aggregate_gaze_directions(gazes) ==
    IF gazes = <<>>
    THEN [raised |-> FALSE, value |-> DefaultGaze]
    ELSE IF AllKeys(gazes) \subseteq Directions
         THEN [raised |-> FALSE, value |-> gaze_means(gazes)]
         ELSE [raised |-> TRUE, value |-> DefaultGaze]

\* what one sampled frame contributes to the two lists (lines 171-177)
FrameOutputs ==
    { [expression |-> [happy |-> <<4, 5>>, neutral |-> <<1, 5>>],
       gaze |-> [left |-> <<1, 5>>, center |-> <<3, 5>>, right |-> <<1, 5>>]],
      \* another label set, values that do not sum to 1
      [expression |-> [neutral |-> One, confused |-> <<1, 2>>],
       gaze |-> [left |-> <<1, 2>>, center |-> <<1, 2>>, right |-> <<1, 2>>]],
      \* all values 0
      [expression |-> [happy |-> Zero, neutral |-> Zero],
       gaze |-> [left |-> Zero, center |-> Zero, right |-> Zero]],
      \* the scorers' fallback values
      [expression |-> [happy |-> <<1, 5>>, neutral |-> <<3, 5>>, confused |-> <<1, 10>>,
                       frustrated |-> <<1, 20>>, excited |-> <<1, 20>>],
       gaze |-> DefaultGaze],
      \* a gaze map with a key that is no direction
      [expression |-> [happy |-> <<7, 10>>, neutral |-> <<1, 5>>, confused |-> <<1, 10>>],
       gaze |-> [left |-> <<1, 10>>, center |-> <<4, 5>>, up |-> <<1, 10>>]] }

FrameSequences == SeqsUpTo(FrameOutputs, MaxFrames)

InitAggregate ==
    /\ \E frames \in FrameSequences :
         /\ expressions = [i \in 1..Len(frames) |-> frames[i].expression]
         /\ gaze_directions = [i \in 1..Len(frames) |-> frames[i].gaze]
    /\ aggregated_expression = None
    /\ aggregated_gaze = None
    /\ aggregate_pc = {}
    /\ IdleAlignment /\ IdleLandmarks /\ IdleAudio /\ IdleEmotion /\ IdleVideo /\ IdleService /\ IdleExtract /\ IdleScenario /\ IdlePool

\* line 213 (and the direct call of the tests)
AggregateExpressions ==
    /\ "idle" \notin aggregate_pc
    /\ "expression" \notin aggregate_pc
    /\ aggregated_expression' = aggregate_expressions(expressions)
    /\ aggregate_pc' = aggregate_pc \cup {"expression"}
    /\ UNCHANGED <<expressions, gaze_directions, aggregated_gaze>>
    /\ UNCHANGED <<alignVars, landmarkVars, audioVars, emotionVars, videoVars, serviceVars, extractVars, scenarioVars, poolVars>>

\* line 216 (and the direct call of the tests)
AggregateGazeDirections ==
    /\ "idle" \notin aggregate_pc
    /\ "gaze" \notin aggregate_pc
    /\ aggregated_gaze' = aggregate_gaze_directions(gaze_directions)
    /\ aggregate_pc' = aggregate_pc \cup {"gaze"}
    /\ UNCHANGED <<expressions, gaze_directions, aggregated_expression>>
    /\ UNCHANGED <<alignVars, landmarkVars, audioVars, emotionVars, videoVars, serviceVars, extractVars, scenarioVars, poolVars>>

NextAggregate ==
    \/ AggregateExpressions
    \/ AggregateGazeDirections

SpecAggregate == InitAggregate /\ [][NextAggregate]_vars

-----------------------------------------------------------------------------
(* Properties of the temporal aggregators *)

IsNumber(x) == x[2] > 0

\* C4: for every non-empty sequence of per-frame emotion distributions with
\* values >= 0 (label sets may differ, values may all be 0),
\* aggregate_expressions returns values that are all >= 0 and sum to 1.
C4_ExpressionsSumToOne ==
    ("expression" \in aggregate_pc /\ expressions # <<>>) =>
        /\ \A k \in DOMAIN aggregated_expression :
             IsNumber(aggregated_expression[k]) /\ RLe(Zero, aggregated_expression[k])
        /\ DictSum(aggregated_expression) = One

FullGazeMaps(gazes) == \A i \in 1..Len(gazes) : DOMAIN gazes[i] = Directions

\* C5: for every non-empty sequence of gaze maps over {left, center, right}
\* with values >= 0, aggregate_gaze_directions returns the per-label mean
\* renormalized so that left + center + right = 1.
C5_GazeRenormalized ==
    ( /\ "gaze" \in aggregate_pc
      /\ gaze_directions # <<>>
      /\ FullGazeMaps(gaze_directions)
      /\ RLt(Zero, DictSum(gaze_means(gaze_directions))) ) =>
        /\ ~aggregated_gaze.raised
        /\ DictSum(aggregated_gaze.value) = One
        /\ \A d \in Directions :
             aggregated_gaze.value[d]
               = RDiv(gaze_means(gaze_directions)[d], DictSum(gaze_means(gaze_directions)))

\* C6: on an empty sequence aggregate_expressions returns {neutral: 1.0} and
\* aggregate_gaze_directions returns {left: 0.33, center: 0.34, right: 0.33},
\* and neither raises.
C6_EmptyInputDefaults ==
    /\ ("expression" \in aggregate_pc /\ expressions = <<>>) =>
          aggregated_expression = [neutral |-> <<1, 1>>]
    /\ ("gaze" \in aggregate_pc /\ gaze_directions = <<>>) =>
          /\ ~aggregated_gaze.raised
          /\ aggregated_gaze.value =
               [left |-> <<33, 100>>, center |-> <<17, 50>>, right |-> <<33, 100>>]

C6_Witness ==
    /\ aggregate_pc = {"expression", "gaze"}
    /\ expressions = <<>>
    /\ gaze_directions = <<>>
    /\ DOMAIN aggregated_expression = {"neutral"}
    /\ DOMAIN aggregated_gaze.value = Directions

-----------------------------------------------------------------------------
(* video_analysis.py: facial geometry of one landmark array.  A landmark   *)
(* array is its number of points n and the points at the indices the       *)
(* scorers read; reading index i of an array with n <= i is an IndexError. *)

\* largest coordinate of the varied points, in tenths (1.1 lies outside [0,1])
MaxCoord == 11

\* the norm is computed to 1/SqrtScale of the unit of its argument, rounded down
SqrtScale == 10

RECURSIVE ISqrtIn(_, _, _)
ISqrtIn(n, lo, hi) ==
    IF lo >= hi THEN lo
    ELSE LET mid == (lo + hi + 1) \div 2
         IN  IF mid * mid <= n THEN ISqrtIn(n, mid, hi) ELSE ISqrtIn(n, lo, mid - 1)

\* floor of the square root of a natural number
ISqrt(n) == ISqrtIn(n, 0, Min(n, 46340))

\* sqrt of a rational q >= 0
RSqrt(q) == Rat(ISqrt(q[1] * q[2] * SqrtScale * SqrtScale), q[2] * SqrtScale)

VSub(a, b) == [i \in 1..3 |-> RSub(a[i], b[i])]

VMid(a, b) == [i \in 1..3 |-> RDiv(RAdd(a[i], b[i]), RInt(2))]

\* np.linalg.norm of a 3-vector
Norm3(v) == RSqrt(RAdd(RAdd(RMul(v[1], v[1]), RMul(v[2], v[2])), RMul(v[3], v[3])))

\* np.linalg.norm(v[:2])
Norm2(v) == RSqrt(RAdd(RMul(v[1], v[1]), RMul(v[2], v[2])))

\* indexing that accepts the index one past the last point
HasIndex_one_past(lm, i) == i <= lm.n

HasIndex(lm, i) == i < lm.n

\* the smile score without the clamp
clamp_smile_score_missing(x) == x

\* lines 288-290: min(1.0, max(0.0, ...))
clamp_smile_score(x) == RMin(One, RMax(Zero, x))

\* the combination of line 289 with the ratio term turned around
smile_score_narrow(width_height_ratio, corner_elevation) ==
    RAdd(RDiv(RSub(<<5, 2>>, width_height_ratio), RInt(2)),
         RMul(corner_elevation, RInt(5)))

\* line 289: (width_height_ratio - 2.5) / 2.0 + corner_elevation * 5
smile_score(width_height_ratio, corner_elevation) ==
    RAdd(RDiv(RSub(width_height_ratio, <<5, 2>>), RInt(2)),
         RMul(corner_elevation, RInt(5)))

\* the try block of calculate_smile_probability (lines 265-294)
smile_try(lm) ==
    IF ~(HasIndex(lm, 61) /\ HasIndex(lm, 291) /\ HasIndex(lm, 13) /\ HasIndex(lm, 14))
    THEN [raised |-> TRUE, value |-> Zero]
    ELSE
      LET mouth_left == lm.pt[61]
          mouth_right == lm.pt[291]
          mouth_top == lm.pt[13]
          mouth_bottom == lm.pt[14]
          mouth_width == Norm3(VSub(mouth_right, mouth_left))
          mouth_height == Norm3(VSub(mouth_bottom, mouth_top))
      IN  IF RLt(Zero, mouth_height)
          THEN LET width_height_ratio == RDiv(mouth_width, mouth_height)
                   mouth_center == VMid(mouth_top, mouth_bottom)
                   corner_elevation ==
                       RSub(RDiv(RAdd(mouth_left[2], mouth_right[2]), RInt(2)),
                            mouth_center[2])
               IN  [raised |-> FALSE,
                    value |-> clamp_smile_score(
                                smile_score(width_height_ratio, corner_elevation))]
          ELSE [raised |-> FALSE, value |-> Zero]

calculate_smile_probability(lm) ==
    IF smile_try(lm).raised THEN Zero ELSE smile_try(lm).value

\* the try block of calculate_eye_contact_score (lines 241-257)
eye_contact_try(lm) ==
    IF ~(HasIndex(lm, 468) /\ HasIndex(lm, 473) /\ HasIndex(lm, 1))
    THEN [raised |-> TRUE, value |-> Zero]
    ELSE
      LET left_eye_center == lm.pt[468]
          right_eye_center == lm.pt[473]
          nose_tip == lm.pt[1]
          eye_center == VMid(left_eye_center, right_eye_center)
          gaze_vector == VSub(eye_center, nose_tip)
          forward_score == RSub(One, RMin(One, RMul(Norm2(gaze_vector), RInt(10))))
      IN  [raised |-> FALSE, value |-> RMax(Zero, forward_score)]

EyeContactOnError == <<1, 2>>

calculate_eye_contact_score(lm) ==
    IF eye_contact_try(lm).raised THEN EyeContactOnError ELSE eye_contact_try(lm).value

Tenth(k) == Rat(k, 10)

ReadIndices == {1, 13, 14, 61, 291, 468, 473}

\* empty array, an array that ends before index 291, arrays whose last index is
\* 290 and 291, the 468-point mesh and the 478-point mesh with refined (iris)
\* landmarks
ArraySizes == {0, 100, 291, 292, 468, 478}

LandmarkArrays ==
    { [n |-> size,
       pt |-> [i \in ReadIndices |->
                 CASE i = 61  -> <<Tenth(xl), Tenth(6), Zero>>
                   [] i = 291 -> <<Tenth(xr), Tenth(yr), Zero>>
                   [] i = 13  -> <<Tenth(5), Tenth(5), Zero>>
                   [] i = 14  -> <<Tenth(5), Tenth(yb), Zero>>
                   [] i = 468 -> <<Tenth(4), Tenth(4), Zero>>
                   [] i = 473 -> <<Tenth(xe), Tenth(4), Zero>>
                   [] i = 1   -> <<Tenth(5), Tenth(yn), Tenth(1)>>]] :
        size \in ArraySizes, xl \in {3, 4}, xr \in 0..MaxCoord, yr \in {5, 6},
        yb \in {5, 6}, xe \in 0..MaxCoord, yn \in {4, 5} }

InitLandmarks ==
    /\ landmark_array \in LandmarkArrays
    /\ smile_prob = None
    /\ eye_contact_score = None
    /\ landmark_pc = {}
    /\ IdleAlignment /\ IdleAggregate /\ IdleAudio /\ IdleEmotion /\ IdleVideo /\ IdleService /\ IdleExtract /\ IdleScenario /\ IdlePool

\* line 170 (and the direct call of the tests)
CalculateSmileProbability ==
    /\ "idle" \notin landmark_pc
    /\ "smile" \notin landmark_pc
    /\ smile_prob' = calculate_smile_probability(landmark_array)
    /\ landmark_pc' = landmark_pc \cup {"smile"}
    /\ UNCHANGED <<landmark_array, eye_contact_score>>
    /\ UNCHANGED <<alignVars, aggregateVars, audioVars, emotionVars, videoVars, serviceVars, extractVars, scenarioVars, poolVars>>

\* line 169 (and the direct call of the tests)
CalculateEyeContactScore ==
    /\ "idle" \notin landmark_pc
    /\ "eye_contact" \notin landmark_pc
    /\ eye_contact_score' = calculate_eye_contact_score(landmark_array)
    /\ landmark_pc' = landmark_pc \cup {"eye_contact"}
    /\ UNCHANGED <<landmark_array, smile_prob>>
    /\ UNCHANGED <<alignVars, aggregateVars, audioVars, emotionVars, videoVars, serviceVars, extractVars, scenarioVars, poolVars>>

NextLandmarks ==
    \/ CalculateSmileProbability
    \/ CalculateEyeContactScore

SpecLandmarks == InitLandmarks /\ [][NextLandmarks]_vars

\* C9: calculate_smile_probability and calculate_eye_contact_score return a
\* value in [0,1] for every landmark array: zero mouth height, coincident
\* points, coordinates outside [0,1], too few landmarks.
C9_ScoresInUnitInterval ==
    /\ "smile" \in landmark_pc => InUnitInterval(smile_prob)
    /\ "eye_contact" \in landmark_pc => InUnitInterval(eye_contact_score)

\* a full mesh with zero mouth height and an eye midpoint off the nose tip
C9_Witness ==
    /\ landmark_pc = {"smile", "eye_contact"}
    /\ landmark_array.n = 478
    /\ landmark_array.pt[13] = landmark_array.pt[14]
    /\ smile_prob = Zero
    /\ eye_contact_score = <<1, 2>>

\* C14: for every 468-point landmark set (indices 0..467),
\* calculate_eye_contact_score returns max(0, 1 - 10*d) with d the length of
\* the (x,y) displacement between the midpoint of the two eye landmarks and the
\* nose tip (index 1); it does not take the 0.5 fallback.  The eye landmarks
\* are the two the code reads.
C14_EyeContactFormula ==
    ("eye_contact" \in landmark_pc /\ landmark_array.n = 468) =>
        LET eyes == VMid(landmark_array.pt[468], landmark_array.pt[473])
            d == Norm2(VSub(eyes, landmark_array.pt[1]))
        IN  /\ ~eye_contact_try(landmark_array).raised
            /\ eye_contact_score = RMax(Zero, RSub(One, RMul(RInt(10), d)))

\* C16: calculate_smile_probability returns exactly 0.0, without raising, for
\* every landmark array that lacks one of the indices 13, 14, 61, 291 and for
\* every array whose mouth height (distance between landmarks 13 and 14) is 0.
C16_SmileZeroOnDegenerate ==
    ( /\ "smile" \in landmark_pc
      /\ \/ landmark_array.n <= 291
         \/ landmark_array.pt[13] = landmark_array.pt[14] ) =>
        smile_prob = Zero

\* the array ends at index 290: landmarks[291] is out of range
C16_Witness ==
    /\ landmark_pc = {"smile"}
    /\ landmark_array.n = 291
    /\ landmark_array.pt[13] # landmark_array.pt[14]
    /\ smile_prob = Zero

\* squared corner-to-corner distance (landmarks 61 and 291)
CornerDistanceSquared(lm) ==
    LET v == VSub(lm.pt[291], lm.pt[61])
    IN  RAdd(RAdd(RMul(v[1], v[1]), RMul(v[2], v[2])), RMul(v[3], v[3]))

\* the arrays that differ from lm at most in the x coordinates of the corners
CornerVariants(lm) ==
    { [lm EXCEPT !.pt[61][1] = Tenth(a), !.pt[291][1] = Tenth(b)] :
        a \in {3, 4}, b \in 0..MaxCoord }

\* C17: of two landmark sets that differ only in the x coordinates of the
\* mouth corners (61 and 291), the one with the larger corner-to-corner
\* distance has a smile probability greater than or equal to the other's.
\* (smile_prob is written once, by CalculateSmileProbability, so it is
\* compared in the state that action produces.)
C17_SmileMonotoneInWidth ==
    landmark_pc = {"smile"} =>
        \A wider \in CornerVariants(landmark_array) :
            RLe(CornerDistanceSquared(landmark_array), CornerDistanceSquared(wider))
              => RLe(smile_prob, calculate_smile_probability(wider))

\* a probability strictly inside (0,1) that a wider mouth strictly raises
C17_Witness ==
    /\ "smile" \in landmark_pc
    /\ RLt(Zero, smile_prob) /\ RLt(smile_prob, One)
    /\ \E wider \in CornerVariants(landmark_array) :
          /\ RLt(CornerDistanceSquared(landmark_array), CornerDistanceSquared(wider))
          /\ RLt(smile_prob, calculate_smile_probability(wider))

-----------------------------------------------------------------------------
(* model_manager.py: SimpleEmotionClassifier.  The three feature functions  *)
(* catch every exception themselves; predict combines their results.        *)

\* max(self.mouth_landmarks), line 182
MaxMouthLandmark == 405

LeftEye == <<33, 160, 158, 133, 153, 144>>

RightEye == <<362, 385, 387, 263, 373, 380>>

\* max() of a list of indices
MaxIndex(list) == CHOOSE i \in {list[k] : k \in 1..Len(list)} :
                     \A k \in 1..Len(list) : list[k] <= i

\* lines 227-252
calculate_smile_score(lm) ==
    IF lm.n < MaxMouthLandmark
    THEN Zero
    ELSE IF ~(HasIndex(lm, 61) /\ HasIndex(lm, 291) /\ HasIndex(lm, 13) /\ HasIndex(lm, 14))
         THEN Zero
         ELSE LET mouth_width == Norm3(VSub(lm.pt[291], lm.pt[61]))
                  mouth_height == Norm3(VSub(lm.pt[14], lm.pt[13]))
              IN  IF RLt(Zero, mouth_height)
                  THEN RMin(One, RMax(Zero,
                         RDiv(RSub(RDiv(mouth_width, mouth_height), RInt(3)), RInt(2))))
                  ELSE Zero

\* eye_aspect_ratio, lines 257-270
eye_aspect_ratio(lm, eye_landmarks) ==
    IF lm.n < MaxIndex(eye_landmarks)
    THEN [raised |-> FALSE, value |-> Zero]
    ELSE IF \E k \in 1..6 : ~HasIndex(lm, eye_landmarks[k])
         THEN [raised |-> TRUE, value |-> Zero]
         ELSE LET A == Norm3(VSub(lm.pt[eye_landmarks[2]], lm.pt[eye_landmarks[6]]))
                  B == Norm3(VSub(lm.pt[eye_landmarks[3]], lm.pt[eye_landmarks[5]]))
                  C == Norm3(VSub(lm.pt[eye_landmarks[1]], lm.pt[eye_landmarks[4]]))
              IN  [raised |-> FALSE,
                   value |-> IF RLt(Zero, C)
                             THEN RDiv(RAdd(A, B), RMul(RInt(2), C))
                             ELSE Zero]

\* lines 254-280
calculate_eye_openness(lm) ==
    LET left_ear == eye_aspect_ratio(lm, LeftEye)
        right_ear == eye_aspect_ratio(lm, RightEye)
    IN  IF left_ear.raised \/ right_ear.raised
        THEN <<1, 2>>
        ELSE LET avg_ear == RDiv(RAdd(left_ear.value, right_ear.value), RInt(2))
             IN  RMin(One, RMax(Zero, RMul(avg_ear, RInt(3))))

\* lines 282-302
calculate_eyebrow_height(lm) ==
    IF lm.n < 300
    THEN <<1, 2>>
    ELSE IF ~(HasIndex(lm, 70) /\ HasIndex(lm, 33) /\ HasIndex(lm, 296) /\ HasIndex(lm, 362))
         THEN <<1, 2>>
         ELSE LET left_distance == Norm3(VSub(lm.pt[70], lm.pt[33]))
                  right_distance == Norm3(VSub(lm.pt[296], lm.pt[362]))
                  avg_distance == RDiv(RAdd(left_distance, right_distance), RInt(2))
              IN  RMin(One, RMax(Zero, RMul(avg_distance, RInt(10))))

\* lines 201-207
emotion_rules(smile, eye_openness, eyebrow_height) ==
    [happy |-> RMax(Zero, smile),
     neutral |-> IF RLt(smile, <<3, 10>>) /\ RLt(<<3, 10>>, eye_openness)
                 THEN <<1, 2>> ELSE <<1, 5>>,
     confused |-> RMax(Zero, RSub(RSub(<<1, 2>>, smile), eye_openness)),
     frustrated |-> IF RLt(smile, <<3, 10>>)
                    THEN RMax(Zero, RSub(eyebrow_height, <<1, 2>>))
                    ELSE <<1, 10>>,
     excited |-> IF RLt(<<2, 5>>, smile)
                 THEN RMin(One, RMul(RMul(smile, eye_openness), RInt(2)))
                 ELSE <<1, 10>>]

\* lines 219-225: the value of the except branch of predict
EmotionOnError ==
    [happy |-> <<1, 5>>, neutral |-> <<3, 5>>, confused |-> <<1, 10>>,
     frustrated |-> <<1, 20>>, excited |-> <<1, 20>>]

\* lines 192-225.  No statement of the try block can raise: the feature
\* functions return a number on every path and the rules are comparisons and
\* arithmetic on numbers.
predict(lm) ==
    LET e == emotion_rules(calculate_smile_score(lm), calculate_eye_openness(lm),
                           calculate_eyebrow_height(lm))
        total == DictSum(e)
    IN  IF RLt(Zero, total)
        THEN [k \in DOMAIN e |-> RDiv(e[k], total)]
        ELSE e

EmotionIndices == {13, 14, 61, 291, 33, 160, 158, 133, 153, 144,
                   362, 385, 387, 263, 373, 380, 70, 296}

\* empty array; arrays that end at index 159, 299, 386 and 403; the refined mesh
EmotionArraySizes == {0, 160, 300, 387, 404, 478}

\* mouth corner xr, lid opening o and brow lift b, in tenths
FaceArrays ==
    { [n |-> size,
       pt |-> [i \in EmotionIndices |->
                 CASE i = 61  -> <<Tenth(4), Tenth(6), Zero>>
                   [] i = 291 -> <<Tenth(xr), Tenth(6), Zero>>
                   [] i = 13  -> <<Tenth(5), Tenth(5), Zero>>
                   [] i = 14  -> <<Tenth(5), Tenth(6), Zero>>
                   [] i \in {33, 362}  -> <<Tenth(1), Tenth(4), Zero>>
                   [] i \in {133, 263} -> <<Tenth(9), Tenth(4), Zero>>
                   [] i \in {160, 158, 385, 387} -> <<Tenth(5), Tenth(4), Zero>>
                   [] i \in {144, 153, 380, 373} -> <<Tenth(5), Tenth(4 + o), Zero>>
                   [] i \in {70, 296} -> <<Tenth(1), Tenth(4 - b), Zero>>]] :
        size \in EmotionArraySizes, xr \in 0..MaxCoord, o \in 0..2, b \in 0..1 }

InitEmotion ==
    /\ face_landmarks \in FaceArrays
    /\ emotions = None
    /\ emotion_pc = "input"
    /\ IdleAlignment /\ IdleAggregate /\ IdleLandmarks /\ IdleAudio /\ IdleVideo /\ IdleService /\ IdleExtract /\ IdleScenario /\ IdlePool

\* classify_emotion (lines 152-157) with an initialized classifier
ClassifyEmotion ==
    /\ emotion_pc = "input"
    /\ emotions' = predict(face_landmarks)
    /\ emotion_pc' = "classified"
    /\ UNCHANGED face_landmarks
    /\ UNCHANGED <<alignVars, aggregateVars, landmarkVars, audioVars, videoVars, serviceVars, extractVars, scenarioVars, poolVars>>

NextEmotion == ClassifyEmotion

SpecEmotion == InitEmotion /\ [][NextEmotion]_vars

\* C15: when the landmark array has too few points for the indices the
\* classifier reads (the largest is 387), predict returns the fixed fallback
\* distribution {happy 0.2, neutral 0.6, confused 0.1, frustrated 0.05,
\* excited 0.05}.
C15_FallbackOnTooFewPoints ==
    (emotion_pc = "classified" /\ face_landmarks.n <= 387) =>
        emotions = [happy |-> <<1, 5>>, neutral |-> <<3, 5>>, confused |-> <<1, 10>>,
                    frustrated |-> <<1, 20>>, excited |-> <<1, 20>>]

-----------------------------------------------------------------------------
(* video_analysis.py: analyze_video_file.  The video is what the capture    *)
(* and the two MediaPipe collaborators return: whether the file opens, its  *)
(* fps, and per frame whether a face is detected and the landmark sets of   *)
(* the mesh.  The emotion classifier is initialized.                        *)

\* longest video, in frames
MaxVideoFrames == 3

\* lines 299-332
calculate_gaze_direction(lm) ==
    IF HasIndex(lm, 133) /\ HasIndex(lm, 33) /\ HasIndex(lm, 362) /\ HasIndex(lm, 263)
    THEN [left |-> <<1, 5>>, center |-> <<3, 5>>, right |-> <<1, 5>>]
    ELSE DefaultGaze

\* a sampling that takes every frame
sample_rate_every_frame(fps) == 1

\* line 133: max(1, int(fps / 5))
sample_rate_of(fps) == Max(1, fps[1] \div (fps[2] * 5))

\* line 146
timestamp_of(count, fps) ==
    IF RLt(Zero, fps) THEN RDiv(RInt(count), fps) ELSE RInt(count)

\* an event that lasts one frame whatever the sampling
event_end_one_frame(timestamp, fps, sample_rate) ==
    IF fps = Zero
    THEN ZeroDivisionError
    ELSE RAdd(timestamp, RDiv(One, fps))

\* lines 183 and 190: timestamp + (1/fps) * sample_rate
event_end(timestamp, fps, sample_rate) ==
    IF fps = Zero
    THEN ZeroDivisionError
    ELSE RAdd(timestamp, RMul(RDiv(One, fps), RInt(sample_rate)))

Event(timestamp, fps, sample_rate, tag) ==
    [start |-> timestamp, end |-> event_end(timestamp, fps, sample_rate), tag |-> tag]

\* lines 162-192 for one landmark set
analyze_frame(lm, timestamp, fps, sample_rate) ==
    LET eye == calculate_eye_contact_score(lm)
        smile == calculate_smile_probability(lm)
        is_smile == RLt(<<3, 5>>, smile)
        is_eye_contact == RLt(<<7, 10>>, eye)
    IN  [raised |-> (is_smile \/ is_eye_contact) /\ fps = Zero,
         entry |-> [eye_contact_score |-> eye, smile_prob |-> smile,
                    gaze_direction |-> calculate_gaze_direction(lm),
                    expression |-> predict(lm)],
         events |-> (IF is_smile
                     THEN <<Event(timestamp, fps, sample_rate, "smile")>> ELSE <<>>)
                    \o (IF is_eye_contact
                        THEN <<Event(timestamp, fps, sample_rate, "eye_contact")>>
                        ELSE <<>>)]

\* lines 199-206
NoFaceResponse ==
    [face_landmarks |-> <<>>,
     eye_contact_score |-> Zero,
     smile_prob |-> Zero,
     expression |-> [neutral |-> One],
     gaze |-> [center |-> One, left |-> Zero, right |-> Zero],
     timestamps |-> <<>>]

\* np.mean of a non-empty list
Mean(q) == RDiv(RSum(q), RInt(Len(q)))

\* lines 197-232
video_response(entries, events, count, sample_rate) ==
    IF entries = <<>>
    THEN NoFaceResponse
    ELSE [face_landmarks |->
             [total_frames_analyzed |-> Len(entries),
              avg_landmark_confidence |-> <<4, 5>>,
              face_detected_ratio |->
                  RDiv(RInt(Len(entries)), RInt(Max(1, count \div sample_rate)))],
          eye_contact_score |->
             Mean([i \in 1..Len(entries) |-> entries[i].eye_contact_score]),
          smile_prob |-> Mean([i \in 1..Len(entries) |-> entries[i].smile_prob]),
          expression |->
             aggregate_expressions([i \in 1..Len(entries) |-> entries[i].expression]),
          gaze |->
             aggregate_gaze_directions(
                 [i \in 1..Len(entries) |-> entries[i].gaze_direction]).value,
          timestamps |-> events]

\* the points of a face: mouth corner xr and eye height ye, in tenths
VideoFacePoints(xr, ye) ==
    [i \in ReadIndices \cup EmotionIndices |->
        CASE i = 61  -> <<Tenth(4), Tenth(6), Zero>>
          [] i = 291 -> <<Tenth(xr), Tenth(6), Zero>>
          [] i = 13  -> <<Tenth(5), Tenth(5), Zero>>
          [] i = 14  -> <<Tenth(5), Tenth(6), Zero>>
          [] i = 468 -> <<Tenth(4), Tenth(ye), Zero>>
          [] i = 473 -> <<Tenth(6), Tenth(ye), Zero>>
          [] i = 1   -> <<Tenth(5), Tenth(4), Tenth(1)>>
          [] i \in {33, 362}  -> <<Tenth(1), Tenth(4), Zero>>
          [] i \in {133, 263} -> <<Tenth(9), Tenth(4), Zero>>
          [] i \in {160, 158, 385, 387} -> <<Tenth(5), Tenth(4), Zero>>
          [] i \in {144, 153, 380, 373} -> <<Tenth(5), Tenth(5), Zero>>
          [] i \in {70, 296} -> <<Tenth(1), Tenth(3), Zero>>]

\* a refined mesh that smiles at the camera, a 468-point mesh that smiles (its
\* eye-contact score is the 0.5 of the except branch), and a refined mesh that
\* looks at the camera without smiling
VideoFaces ==
    { [n |-> 478, pt |-> VideoFacePoints(10, 4)],
      [n |-> 468, pt |-> VideoFacePoints(10, 4)],
      [n |-> 478, pt |-> VideoFacePoints(6, 4)] }

\* what face detection and the face mesh return for one frame
FrameKinds ==
    { [detections |-> FALSE, multi_face_landmarks |-> <<>>],
      [detections |-> TRUE, multi_face_landmarks |-> <<>>] }
    \cup { [detections |-> TRUE, multi_face_landmarks |-> <<lm>>] : lm \in VideoFaces }

\* CAP_PROP_FPS: unknown (0), 5, 10, 12.5 and 15 frames per second, sampled
\* every frame (0 and 5), every second (10 and 12.5) and every third frame (15)
FrameRates == {Zero, RInt(5), RInt(10), <<25, 2>>, RInt(15)}

Videos ==
    { [opened |-> FALSE, fps |-> Zero, frames |-> <<>>] }
    \cup { [opened |-> TRUE, fps |-> r, frames |-> f] :
             r \in FrameRates, f \in SeqsUpTo(FrameKinds, MaxVideoFrames) }

InitVideo ==
    /\ video \in Videos
    /\ frame_count = 0
    /\ analyzed = <<>>
    /\ timestamps = <<>>
    /\ video_result = Pending
    /\ video_pc = "start"
    /\ IdleAlignment /\ IdleAggregate /\ IdleLandmarks /\ IdleAudio /\ IdleEmotion /\ IdleService /\ IdleExtract /\ IdleScenario /\ IdlePool

\* lines 110-133; a file that does not open raises ValueError, which the
\* except branch of lines 234-236 raises again
OpenVideo ==
    /\ video_pc = "start"
    /\ IF video.opened
       THEN /\ video_pc' = "loop"
            /\ video_result' = video_result
       ELSE /\ video_pc' = "raised"
            /\ video_result' = [status |-> "raised", error |-> "ValueError"]
    /\ UNCHANGED <<video, frame_count, analyzed, timestamps>>
    /\ UNCHANGED <<alignVars, aggregateVars, landmarkVars, audioVars, emotionVars, serviceVars, extractVars, scenarioVars, poolVars>>

\* one iteration of the loop of lines 135-192 in which cap.read() returns a frame
ReadFrame ==
    /\ video_pc = "loop"
    /\ frame_count < Len(video.frames)
    /\ LET count == frame_count + 1
           frame == video.frames[count]
           fps == video.fps
           sample_rate == sample_rate_of(fps)
       IN  /\ frame_count' = count
           /\ IF count % sample_rate # 0
                 \/ ~frame.detections
                 \/ frame.multi_face_landmarks = <<>>
              THEN UNCHANGED <<analyzed, timestamps, video_result, video_pc>>
              ELSE LET r == analyze_frame(frame.multi_face_landmarks[1],
                                          timestamp_of(count, fps), fps, sample_rate)
                   IN  IF r.raised
                       THEN /\ video_pc' = "raised"
                            /\ video_result' =
                                  [status |-> "raised", error |-> "ZeroDivisionError"]
                            /\ UNCHANGED <<analyzed, timestamps>>
                       ELSE /\ analyzed' = Append(analyzed, r.entry)
                            /\ timestamps' = timestamps \o r.events
                            /\ UNCHANGED <<video_result, video_pc>>
    /\ UNCHANGED video
    /\ UNCHANGED <<alignVars, aggregateVars, landmarkVars, audioVars, emotionVars, serviceVars, extractVars, scenarioVars, poolVars>>

\* cap.read() returns no frame: lines 137-138 and 194-232
FinishVideo ==
    /\ video_pc = "loop"
    /\ frame_count = Len(video.frames)
    /\ video_result' =
          [status |-> "returned",
           response |-> video_response(analyzed, timestamps, frame_count,
                                       sample_rate_of(video.fps))]
    /\ video_pc' = "returned"
    /\ UNCHANGED <<video, frame_count, analyzed, timestamps>>
    /\ UNCHANGED <<alignVars, aggregateVars, landmarkVars, audioVars, emotionVars, serviceVars, extractVars, scenarioVars, poolVars>>

NextVideo ==
    \/ OpenVideo
    \/ ReadFrame
    \/ FinishVideo

SpecVideo == InitVideo /\ [][NextVideo]_vars

\* frame i (counted from 1) is sampled and yields a landmark set
SampledFace(v, i) ==
    /\ i % Max(1, v.fps[1] \div (5 * v.fps[2])) = 0
    /\ v.frames[i].detections
    /\ v.frames[i].multi_face_landmarks # <<>>

\* C18: for every opened video (any fps, any number of frames, none included)
\* in which no sampled frame yields a face landmark set, analyze_video_file
\* returns eye_contact_score 0.0, smile_prob 0.0, expression {neutral: 1.0},
\* gaze {center: 1.0, left: 0.0, right: 0.0}, no timestamps and an empty
\* face_landmarks summary.
C18_NoFaceResult ==
    (video.opened /\ \A i \in 1..Len(video.frames) : ~SampledFace(video, i)) =>
        /\ video_pc # "raised"
        /\ video_pc = "returned" =>
              /\ video_result.status = "returned"
              /\ video_result.response =
                    [face_landmarks |-> <<>>,
                     eye_contact_score |-> <<0, 1>>,
                     smile_prob |-> <<0, 1>>,
                     expression |-> [neutral |-> <<1, 1>>],
                     gaze |-> [center |-> <<1, 1>>, left |-> <<0, 1>>, right |-> <<0, 1>>],
                     timestamps |-> <<>>]

\* at 10 fps every second frame is sampled: the face of frame 1 is skipped and
\* frame 2 shows none
C18_Witness ==
    /\ video_pc = "returned"
    /\ video.fps = <<10, 1>>
    /\ Len(video.frames) = 2
    /\ video.frames[1].multi_face_landmarks # <<>>
    /\ video.frames[2].multi_face_landmarks = <<>>
    /\ video_result.response.face_landmarks = <<>>

-----------------------------------------------------------------------------
(* main.py and the routers: one request to an endpoint.  The dependency    *)
(* get_model_manager runs before the handler; the handler obtains the media *)
(* file and runs its pipeline, which returns or raises.                     *)

VideoEndpoints == {"/analyze/video", "/analyze/video/upload"}

AudioEndpoints == {"/analyze/audio", "/analyze/audio/upload"}

SttEndpoints == {"/stt", "/stt/upload"}

AlignEndpoints == {"/align", "/align/upload"}

UploadEndpoints ==
    {"/analyze/video/upload", "/analyze/audio/upload", "/stt/upload", "/align/upload"}

MediaEndpoints == VideoEndpoints \cup AudioEndpoints \cup SttEndpoints \cup AlignEndpoints

\* the routes of the five routers included with Depends(get_model_manager)
Endpoints == MediaEndpoints \cup {"/generate", "/stt/languages"}

HTTPException(status_code, detail) ==
    [raised |-> TRUE, status_code |-> status_code, detail |-> detail]

\* a dependency that hands on whatever the global holds
get_model_manager_unchecked(manager) == [raised |-> FALSE, value |-> manager]

\* main.py lines 66-70 and the function of the same name in each router
get_model_manager(manager) ==
    IF manager = None
    THEN HTTPException(503, "AI service not initialized")
    ELSE [raised |-> FALSE, value |-> manager]

Step(name, raised) == [step |-> name, raised |-> raised]

ErrorResponse(status_code, detail) == [status_code |-> status_code, detail |-> detail]

\* lines 349-353 and 168-174 of alignment.py
fallback_alignment(t) ==
    [phonemes |-> distribute_phonemes_evenly(text_to_phonemes(t), One),
     alignment_score |-> <<1, 2>>,
     duration |-> One]

\* stt.py lines 161-166
fallback_transcript ==
    [transcript |-> "[Audio could not be processed]", words |-> <<>>,
     confidence |-> Zero]

\* what the handler answers once its pipeline function has returned or raised
pipeline_response(endpoint, t, raised) ==
    IF ~raised
    THEN [status_code |-> 200, body |-> [result |-> "computed"]]
    ELSE IF endpoint \in AlignEndpoints
         THEN [status_code |-> 200, body |-> fallback_alignment(t)]
         ELSE IF endpoint \in SttEndpoints
              THEN [status_code |-> 200, body |-> fallback_transcript]
              ELSE IF endpoint \in VideoEndpoints
                   THEN ErrorResponse(500, "Video analysis failed")
                   ELSE ErrorResponse(500, "Audio analysis failed")

\* the answer to a failed download or a rejected upload
media_error(endpoint) ==
    IF endpoint \in UploadEndpoints
    THEN ErrorResponse(400, "File must be audio or video")
    ELSE ErrorResponse(500, "Failed to download")

InitService ==
    /\ model_manager \in {None, "ModelManager"}
    /\ request \in [endpoint : Endpoints, text : Texts]
    /\ executed = <<>>
    /\ response = Pending
    /\ attempts = 0
    /\ service_pc = "received"
    /\ IdleAlignment /\ IdleAggregate /\ IdleLandmarks /\ IdleAudio /\ IdleEmotion
    /\ IdleVideo /\ IdleExtract /\ IdleScenario /\ IdlePool

\* the router-level and the endpoint-level Depends(get_model_manager)
ResolveDependencies ==
    /\ service_pc = "received"
    /\ attempts' = attempts + 1
    /\ LET dependency == get_model_manager(model_manager)
       IN  IF dependency.raised
           THEN /\ response' = ErrorResponse(dependency.status_code, dependency.detail)
                /\ service_pc' = "done"
           ELSE /\ response' = response
                /\ service_pc' = "admitted"
    /\ UNCHANGED <<model_manager, request, executed>>
    /\ UNCHANGED <<alignVars, aggregateVars, landmarkVars, audioVars, emotionVars,
                   videoVars, extractVars, scenarioVars, poolVars>>

\* download_* of the URL endpoints; content-type check and temp file of the
\* upload endpoints.  The except Exception of a URL endpoint turns the 400 of a
\* failed download into a 500; an upload endpoint re-raises its 400.
ObtainMedia ==
    /\ service_pc = "admitted"
    /\ request.endpoint \in MediaEndpoints
    /\ \E failed \in BOOLEAN :
         /\ executed' = Append(executed, Step("media", failed))
         /\ IF failed
            THEN /\ response' = media_error(request.endpoint)
                 /\ service_pc' = "done"
            ELSE /\ response' = response
                 /\ service_pc' = "media"
    /\ UNCHANGED <<model_manager, request, attempts>>
    /\ UNCHANGED <<alignVars, aggregateVars, landmarkVars, audioVars, emotionVars,
                   videoVars, extractVars, scenarioVars, poolVars>>

\* analyze_video_file, analyze_audio_file, transcribe_audio_file or
\* align_text_audio, and the try/except of the endpoint around it
RunPipeline ==
    /\ service_pc = "media"
    /\ \E raised \in BOOLEAN :
         /\ executed' = Append(executed, Step("pipeline", raised))
         /\ response' = pipeline_response(request.endpoint, request.text, raised)
    /\ service_pc' = "done"
    /\ UNCHANGED <<model_manager, request, attempts>>
    /\ UNCHANGED <<alignVars, aggregateVars, landmarkVars, audioVars, emotionVars,
                   videoVars, extractVars, scenarioVars, poolVars>>

\* generate_scenario (scenario_generation.py lines 53-78) and
\* get_supported_languages (stt.py line 219)
AnswerWithoutMedia ==
    /\ service_pc = "admitted"
    /\ request.endpoint \notin MediaEndpoints
    /\ \E raised \in (IF request.endpoint = "/generate" THEN BOOLEAN ELSE {FALSE}) :
         /\ executed' = Append(executed, Step("generate", raised))
         /\ response' = IF raised
                         THEN ErrorResponse(500, "Scenario generation failed")
                         ELSE [status_code |-> 200, body |-> [result |-> "computed"]]
    /\ service_pc' = "done"
    /\ UNCHANGED <<model_manager, request, attempts>>
    /\ UNCHANGED <<alignVars, aggregateVars, landmarkVars, audioVars, emotionVars,
                   videoVars, extractVars, scenarioVars, poolVars>>

NextService ==
    \/ ResolveDependencies
    \/ ObtainMedia
    \/ RunPipeline
    \/ AnswerWithoutMedia

SpecService == InitService /\ [][NextService]_vars

\* C19: while the model manager is None, every request to an analysis, STT,
\* alignment or scenario endpoint ends with HTTP 503 "AI service not
\* initialized"; no download, model call or scoring step runs for it and it is
\* dispatched once.
C19_Unavailable503 ==
    model_manager = "None" =>
        /\ executed = <<>>
        /\ attempts <= 1
        /\ service_pc \in {"received", "done"}
        /\ service_pc = "done" =>
              /\ attempts = 1
              /\ response = [status_code |-> 503, detail |-> "AI service not initialized"]

C19_Witness ==
    /\ model_manager = "None"
    /\ request.endpoint = "/analyze/video"
    /\ service_pc = "done"
    /\ response.status_code = 503
    /\ executed = <<>>

\* the pipeline function of the request raised after the media file was obtained
PipelineRaised ==
    /\ service_pc = "done"
    /\ \E i \in 1..Len(executed) : executed[i] = [step |-> "pipeline", raised |-> TRUE]

\* C20: whenever the alignment, audio-analysis or video-analysis path raises
\* after the media file was obtained, the handler answers with a full fallback
\* result (for alignment: the phonemes of the text spread evenly over 1.0 s,
\* alignment_score 0.5, duration 1.0) and no error response.
C20_FallbackOnPipelineFailure ==
    ( /\ PipelineRaised
      /\ request.endpoint \in AlignEndpoints \cup AudioEndpoints \cup VideoEndpoints ) =>
        /\ response.status_code = 200
        /\ request.endpoint \in AlignEndpoints =>
              LET p == text_to_phonemes(request.text)
                  a == response.body.phonemes
              IN  /\ Len(a) = Len(p)
                  /\ \A i \in 1..Len(p) :
                       /\ a[i].phoneme = p[i]
                       /\ a[i].start = Rat(i - 1, Len(p))
                       /\ a[i].end = Rat(i, Len(p))
                       /\ a[i].confidence = <<1, 2>>
                  /\ response.body.alignment_score = <<1, 2>>
                  /\ response.body.duration = <<1, 1>>

-----------------------------------------------------------------------------
(* audio_analysis.py: prosody score and tone label.  A feature dict is a    *)
(* function from its keys to values; a value is a number or NotANumber (a  *)
(* value arithmetic and comparison reject with TypeError); reading a key   *)
(* the dict lacks is a KeyError.                                           *)

\* largest speaking rate of the model, in halves of a syllable per second
MaxRateHalves == 11

\* largest speech ratio of the model, in tenths
MaxRatioTenths == 11

\* d[key] can be read and computed with
Readable(d, key) == key \in DOMAIN d /\ d[key] # NotANumber

\* lines 278-283
rate_score(speaking_rate) ==
    IF RLe(<<3, 2>>, speaking_rate) /\ RLe(speaking_rate, RInt(3))
    THEN One
    ELSE IF RLt(speaking_rate, <<3, 2>>)
         THEN RDiv(speaking_rate, <<3, 2>>)
         ELSE RMax(Zero, RSub(One, RDiv(RSub(speaking_rate, RInt(3)), RInt(2))))

\* ratio_score with the lower end of the band excluded
ratio_score_open_band(speech_ratio) ==
    IF RLt(<<1, 2>>, speech_ratio) /\ RLe(speech_ratio, <<4, 5>>)
    THEN One
    ELSE RMax(Zero, RSub(One, RDiv(RAbs(RSub(speech_ratio, <<13, 20>>)), <<7, 20>>)))

\* lines 289-292
ratio_score(speech_ratio) ==
    IF RLe(<<1, 2>>, speech_ratio) /\ RLe(speech_ratio, <<4, 5>>)
    THEN One
    ELSE RMax(Zero, RSub(One, RDiv(RAbs(RSub(speech_ratio, <<13, 20>>)), <<7, 20>>)))

\* the try block of calculate_prosody_score (lines 266-298)
prosody_try(pitch, energy, rhythm) ==
    IF ~( /\ Readable(pitch, "variance")
          /\ Readable(energy, "variance")
          /\ Readable(rhythm, "speaking_rate")
          /\ Readable(rhythm, "speech_ratio") )
    THEN [raised |-> TRUE, value |-> NotANumber]
    ELSE
      LET pitch_var_normalized == RMin(One, RDiv(pitch["variance"], RInt(1000)))
          energy_var_normalized == RMin(One, RDiv(energy["variance"], <<1, 100>>))
          score_components ==
              << RMul(pitch_var_normalized, <<3, 10>>),
                 RMul(energy_var_normalized, <<1, 5>>),
                 RMul(rate_score(rhythm["speaking_rate"]), <<3, 10>>),
                 RMul(ratio_score(rhythm["speech_ratio"]), <<1, 5>>) >>
          total_score == RSum(score_components)
      IN  [raised |-> FALSE, value |-> RMin(One, RMax(Zero, total_score))]

ProsodyOnError == <<1, 2>>

\* calculate_prosody_score without its except branch
calculate_prosody_score_unguarded(pitch, energy, rhythm) ==
    prosody_try(pitch, energy, rhythm).value

calculate_prosody_score(pitch, energy, rhythm) ==
    IF prosody_try(pitch, energy, rhythm).raised
    THEN ProsodyOnError
    ELSE prosody_try(pitch, energy, rhythm).value

ToneLabels ==
    {"excited", "energetic", "monotone", "expressive", "calm", "animated", "neutral"}

\* tone_rule_animated with the threshold itself counted as animated
tone_rule_animated_inclusive(pitch_var) ==
    IF pitch_var = NotANumber THEN "raise"
    ELSE IF RLe(RInt(1000), pitch_var) THEN "animated" ELSE "neutral"

\* lines 328-331, reached with pitch_var not yet known to be a number
tone_rule_animated(pitch_var) ==
    IF pitch_var = NotANumber THEN "raise"
    ELSE IF RLt(RInt(1000), pitch_var) THEN "animated" ELSE "neutral"

\* lines 326-331; speaking_rate is a number here
tone_rule_calm(pitch_var, speaking_rate) ==
    IF RLt(speaking_rate, <<3, 2>>)
    THEN IF pitch_var = NotANumber THEN "raise"
         ELSE IF RLt(pitch_var, RInt(300)) THEN "calm"
              ELSE tone_rule_animated(pitch_var)
    ELSE tone_rule_animated(pitch_var)

\* lines 324-331
tone_rule_expressive(pitch_mean, pitch_var, speaking_rate) ==
    IF pitch_mean = NotANumber THEN "raise"
    ELSE IF RLt(RInt(200), pitch_mean)
         THEN IF pitch_var = NotANumber THEN "raise"
              ELSE IF RLt(RInt(500), pitch_var) THEN "expressive"
                   ELSE tone_rule_calm(pitch_var, speaking_rate)
         ELSE tone_rule_calm(pitch_var, speaking_rate)

\* lines 322-331; energy_mean is a number here
tone_rule_monotone(pitch_mean, pitch_var, energy_mean, speaking_rate) ==
    IF RLt(energy_mean, <<1, 20>>) THEN "monotone"
    ELSE IF speaking_rate = NotANumber THEN "raise"
         ELSE IF RLt(speaking_rate, One) THEN "monotone"
              ELSE tone_rule_expressive(pitch_mean, pitch_var, speaking_rate)

\* the try block of classify_tone (lines 311-331): a label, or "raise"
tone_try(pitch, energy, rhythm) ==
    IF ~( /\ "mean" \in DOMAIN pitch /\ "variance" \in DOMAIN pitch
          /\ "mean" \in DOMAIN energy /\ "speaking_rate" \in DOMAIN rhythm )
    THEN "raise"
    ELSE
      LET pitch_mean == pitch["mean"]
          pitch_var == pitch["variance"]
          energy_mean == energy["mean"]
          speaking_rate == rhythm["speaking_rate"]
      IN  IF energy_mean = NotANumber THEN "raise"
          ELSE IF RLt(<<3, 20>>, energy_mean)
               THEN IF speaking_rate = NotANumber THEN "raise"
                    ELSE IF RLt(<<5, 2>>, speaking_rate)
                         THEN IF pitch_var = NotANumber THEN "raise"
                              ELSE IF RLt(RInt(800), pitch_var)
                                   THEN "excited" ELSE "energetic"
                         ELSE tone_rule_monotone(pitch_mean, pitch_var, energy_mean,
                                                 speaking_rate)
               ELSE tone_rule_monotone(pitch_mean, pitch_var, energy_mean, speaking_rate)

classify_tone(pitch, energy, rhythm) ==
    IF tone_try(pitch, energy, rhythm) = "raise"
    THEN "neutral"
    ELSE tone_try(pitch, energy, rhythm)

PitchMeans == {RInt(150), RInt(250)}

PitchVariances ==
    {RInt(-100), Zero, RInt(300), RInt(500), RInt(800), RInt(1000), RInt(2000)}

EnergyMeans == {<<1, 50>>, <<1, 20>>, <<3, 20>>, <<1, 5>>}

EnergyVariances == {<<-1, 100>>, Zero, <<1, 200>>, <<1, 100>>, <<1, 50>>}

SpeakingRates == {Rat(k, 2) : k \in -1..MaxRateHalves}

SpeechRatios == {Rat(k, 10) : k \in -1..MaxRatioTenths} \cup {<<13, 20>>}

\* the features the three extractors return
WellFormedFeatures ==
    { [pitch |-> [mean |-> pm, variance |-> pv],
       energy |-> [mean |-> em, variance |-> ev],
       rhythm |-> [speaking_rate |-> sr, speech_ratio |-> ratio]] :
        pm \in PitchMeans, pv \in PitchVariances, em \in EnergyMeans,
        ev \in EnergyVariances, sr \in SpeakingRates, ratio \in SpeechRatios }

\* dict d without key, or with a non-numeric value under it
Damage(d, key, how) ==
    IF how = "missing"
    THEN [k \in DOMAIN d \ {key} |-> d[k]]
    ELSE [d EXCEPT ![key] = NotANumber]

\* feature dicts of which one key is missing or non-numeric
DamagedFeatures ==
    LET base == { [pitch |-> [mean |-> RInt(250), variance |-> pv],
                   energy |-> [mean |-> em, variance |-> <<1, 100>>],
                   rhythm |-> [speaking_rate |-> sr, speech_ratio |-> <<13, 20>>]] :
                    pv \in {Zero, RInt(2000)}, em \in EnergyMeans,
                    sr \in {<<1, 2>>, RInt(2), RInt(3)} }
    IN  UNION { { [f EXCEPT !.pitch = Damage(f.pitch, "mean", how)],
                  [f EXCEPT !.pitch = Damage(f.pitch, "variance", how)],
                  [f EXCEPT !.energy = Damage(f.energy, "mean", how)],
                  [f EXCEPT !.energy = Damage(f.energy, "variance", how)],
                  [f EXCEPT !.rhythm = Damage(f.rhythm, "speaking_rate", how)],
                  [f EXCEPT !.rhythm = Damage(f.rhythm, "speech_ratio", how)] } :
                f \in base, how \in {"missing", "non-numeric"} }

InitAudio ==
    /\ \E f \in WellFormedFeatures \cup DamagedFeatures :
         /\ pitch_features = f.pitch
         /\ energy_features = f.energy
         /\ rhythm_features = f.rhythm
    /\ prosody_score = None
    /\ tone_label = None
    /\ audio_pc = "features"
    /\ IdleAlignment /\ IdleAggregate /\ IdleLandmarks /\ IdleEmotion /\ IdleVideo /\ IdleService /\ IdleExtract /\ IdleScenario /\ IdlePool

\* line 126
CalculateProsodyScore ==
    /\ audio_pc = "features"
    /\ prosody_score' =
          calculate_prosody_score(pitch_features, energy_features, rhythm_features)
    /\ audio_pc' = "scored"
    /\ UNCHANGED <<pitch_features, energy_features, rhythm_features, tone_label>>
    /\ UNCHANGED <<alignVars, aggregateVars, landmarkVars, emotionVars, videoVars, serviceVars, extractVars, scenarioVars, poolVars>>

\* line 129
ClassifyTone ==
    /\ audio_pc = "scored"
    /\ tone_label' = classify_tone(pitch_features, energy_features, rhythm_features)
    /\ audio_pc' = "classified"
    /\ UNCHANGED <<pitch_features, energy_features, rhythm_features, prosody_score>>
    /\ UNCHANGED <<alignVars, aggregateVars, landmarkVars, emotionVars, videoVars, serviceVars, extractVars, scenarioVars, poolVars>>

NextAudio ==
    \/ CalculateProsodyScore
    \/ ClassifyTone

SpecAudio == InitAudio /\ [][NextAudio]_vars

-----------------------------------------------------------------------------
(* audio_analysis.py: the three feature extractors.  librosa and numpy are   *)
(* libraries: the signal records, for each extractor, whether its library   *)
(* calls raise and the statistics they compute otherwise.                    *)

\* lines 171-177, the except branch of extract_pitch_features
PitchOnError ==
    [mean |-> RInt(150), variance |-> RInt(100), range |-> RInt(50),
     voiced_ratio |-> <<1, 2>>]

\* lines 159-164, no voiced segment
PitchUnvoiced ==
    [mean |-> RInt(150), variance |-> Zero, range |-> Zero, voiced_ratio |-> Zero]

\* lines 144-177
extract_pitch_features(y) ==
    IF y.pyin.raised THEN PitchOnError
    ELSE IF ~y.pyin.voiced THEN PitchUnvoiced
    ELSE [mean |-> y.pyin.mean, variance |-> y.pyin.variance,
          range |-> y.pyin.range, voiced_ratio |-> y.pyin.voiced_ratio]

\* lines 199-204, the except branch of extract_energy_features
EnergyOnError ==
    [mean |-> <<1, 10>>, variance |-> <<1, 100>>,
     spectral_centroid_mean |-> RInt(2000), zero_crossing_rate |-> <<1, 10>>]

\* lines 179-204
extract_energy_features(y) ==
    IF y.rms.raised THEN EnergyOnError
    ELSE [mean |-> y.rms.mean, variance |-> y.rms.variance,
          spectral_centroid_mean |-> y.rms.spectral_centroid_mean,
          zero_crossing_rate |-> y.rms.zero_crossing_rate]

\* lines 241-246, the except branch of extract_rhythm_features
RhythmOnError ==
    [speaking_rate |-> RInt(2), avg_interval |-> <<1, 2>>,
     interval_variance |-> <<1, 10>>, speech_ratio |-> <<7, 10>>]

\* lines 206-246
extract_rhythm_features(y) ==
    IF y.onset.raised THEN RhythmOnError
    ELSE [speaking_rate |-> y.onset.speaking_rate,
          avg_interval |-> y.onset.avg_interval,
          interval_variance |-> y.onset.interval_variance,
          speech_ratio |-> y.onset.speech_ratio]

PyinOutcomes ==
    { [raised |-> r, voiced |-> v, mean |-> pm, variance |-> pv,
       range |-> RInt(80), voiced_ratio |-> <<3, 5>>] :
        r \in BOOLEAN, v \in BOOLEAN, pm \in PitchMeans,
        pv \in {Zero, RInt(600), RInt(2000)} }

RmsOutcomes ==
    { [raised |-> r, mean |-> em, variance |-> <<1, 200>>,
       spectral_centroid_mean |-> RInt(1500), zero_crossing_rate |-> <<1, 20>>] :
        r \in BOOLEAN, em \in EnergyMeans \cup {<<1, 10>>} }

OnsetOutcomes ==
    { [raised |-> r, speaking_rate |-> sr, avg_interval |-> <<1, 2>>,
       interval_variance |-> <<1, 20>>, speech_ratio |-> <<3, 5>>] :
        r \in BOOLEAN, sr \in {Zero, <<1, 2>>, RInt(2), RInt(3)} }

\* what the libraries do with a loaded, non-empty clip
Signals == [pyin : PyinOutcomes, rms : RmsOutcomes, onset : OnsetOutcomes]

InitExtraction ==
    /\ signal \in Signals
    /\ pitch_features = None
    /\ energy_features = None
    /\ rhythm_features = None
    /\ prosody_score = None
    /\ tone_label = None
    /\ audio_pc = "loaded"
    /\ IdleAlignment /\ IdleAggregate /\ IdleLandmarks /\ IdleEmotion /\ IdleVideo /\ IdleService /\ IdleScenario /\ IdlePool

\* line 121
ExtractPitchFeatures ==
    /\ audio_pc = "loaded"
    /\ pitch_features' = extract_pitch_features(signal)
    /\ audio_pc' = "pitch"
    /\ UNCHANGED <<energy_features, rhythm_features, prosody_score, tone_label, signal>>
    /\ UNCHANGED <<alignVars, aggregateVars, landmarkVars, emotionVars, videoVars, serviceVars, scenarioVars, poolVars>>

\* line 122
ExtractEnergyFeatures ==
    /\ audio_pc = "pitch"
    /\ energy_features' = extract_energy_features(signal)
    /\ audio_pc' = "energy"
    /\ UNCHANGED <<pitch_features, rhythm_features, prosody_score, tone_label, signal>>
    /\ UNCHANGED <<alignVars, aggregateVars, landmarkVars, emotionVars, videoVars, serviceVars, scenarioVars, poolVars>>

\* line 123
ExtractRhythmFeatures ==
    /\ audio_pc = "energy"
    /\ rhythm_features' = extract_rhythm_features(signal)
    /\ audio_pc' = "features"
    /\ UNCHANGED <<pitch_features, energy_features, prosody_score, tone_label, signal>>
    /\ UNCHANGED <<alignVars, aggregateVars, landmarkVars, emotionVars, videoVars, serviceVars, scenarioVars, poolVars>>

\* lines 111-138 of analyze_audio_file
NextExtraction ==
    \/ ExtractPitchFeatures
    \/ ExtractEnergyFeatures
    \/ ExtractRhythmFeatures
    \/ CalculateProsodyScore
    \/ ClassifyTone

SpecExtraction == InitExtraction /\ [][NextExtraction]_vars

-----------------------------------------------------------------------------
(* Properties of the prosody scorer and the tone classifier *)

AllReadable ==
    /\ Readable(pitch_features, "mean") /\ Readable(pitch_features, "variance")
    /\ Readable(energy_features, "mean") /\ Readable(energy_features, "variance")
    /\ Readable(rhythm_features, "speaking_rate")
    /\ Readable(rhythm_features, "speech_ratio")

ProsodyScored == audio_pc \in {"scored", "classified"}

\* C7: calculate_prosody_score equals clamp01(0.3*min(1, pitch_var/1000)
\* + 0.2*min(1, energy_var/0.01) + 0.3*rate_score + 0.2*ratio_score) with
\* rate_score 1.0 on [1.5, 3.0], rate/1.5 below and max(0, 1-(rate-3)/2) above,
\* ratio_score 1.0 on [0.5, 0.8] and max(0, 1-|ratio-0.65|/0.35) elsewhere;
\* rate 2.0, ratio 0.65, pitch_var 1000, energy_var 0.01 give exactly 1.0.
C7_ProsodyFormula ==
    (ProsodyScored /\ AllReadable) =>
        LET pv == pitch_features["variance"]
            ev == energy_features["variance"]
            sr == rhythm_features["speaking_rate"]
            ratio == rhythm_features["speech_ratio"]
            rate_part ==
                IF RLe(<<3, 2>>, sr) /\ RLe(sr, <<3, 1>>) THEN One
                ELSE IF RLt(sr, <<3, 2>>) THEN RMul(sr, <<2, 3>>)
                ELSE RMax(Zero, RSub(One, RMul(RSub(sr, <<3, 1>>), <<1, 2>>)))
            ratio_part ==
                IF RLe(<<1, 2>>, ratio) /\ RLe(ratio, <<4, 5>>) THEN One
                ELSE RMax(Zero, RSub(One, RMul(RAbs(RSub(ratio, <<13, 20>>)), <<20, 7>>)))
            sum == RAdd(RAdd(RMul(<<3, 10>>, RMin(One, RMul(pv, <<1, 1000>>))),
                             RMul(<<1, 5>>, RMin(One, RMul(ev, <<100, 1>>)))),
                        RAdd(RMul(<<3, 10>>, rate_part), RMul(<<1, 5>>, ratio_part)))
        IN  /\ prosody_score = RMax(Zero, RMin(One, sum))
            /\ (pv = <<1000, 1>> /\ ev = <<1, 100>> /\ sr = <<2, 1>> /\ ratio = <<13, 20>>)
                 => prosody_score = One

\* the example of the specification
C7_Witness ==
    /\ audio_pc = "scored"
    /\ AllReadable
    /\ pitch_features["variance"] = <<1000, 1>>
    /\ energy_features["variance"] = <<1, 100>>
    /\ rhythm_features["speaking_rate"] = <<2, 1>>
    /\ rhythm_features["speech_ratio"] = <<13, 20>>
    /\ prosody_score = One

\* C8: calculate_prosody_score and classify_tone never raise: whatever key is
\* missing or non-numeric and whatever the sign of the values, the score is a
\* number in [0,1], 0.5 when the computation fails, and the tone is a label,
\* "neutral" when the computation fails.
C8_NeverRaise ==
    /\ ProsodyScored =>
          /\ InUnitInterval(prosody_score)
          /\ ~( /\ Readable(pitch_features, "variance")
                /\ Readable(energy_features, "variance")
                /\ Readable(rhythm_features, "speaking_rate")
                /\ Readable(rhythm_features, "speech_ratio") )
               => prosody_score = <<1, 2>>
    /\ audio_pc = "classified" =>
          /\ tone_label \in ToneLabels
          /\ ~( /\ "mean" \in DOMAIN pitch_features
                /\ "variance" \in DOMAIN pitch_features
                /\ Readable(energy_features, "mean")
                /\ "speaking_rate" \in DOMAIN rhythm_features )
               => tone_label = "neutral"

\* both computations fail on a missing pitch variance
C8_Witness ==
    /\ audio_pc = "classified"
    /\ "variance" \notin DOMAIN pitch_features
    /\ prosody_score = <<1, 2>>
    /\ tone_label = "neutral"

\* the extractors of the clip that substituted their default feature values
FailedExtractors ==
    {e \in {"pyin", "rms", "onset"} : signal[e].raised}

\* C21: if any one of the three prosody extractors (pitch, energy, rhythm)
\* fails and substitutes its default feature values, the tone label of the
\* request is "neutral", whatever the other two extractors returned.
C21_NeutralOnExtractorFailure ==
    (audio_pc = "classified" /\ FailedExtractors # {}) =>
        tone_label = "neutral"

-----------------------------------------------------------------------------
(* Properties of the allocation of phonemes to words *)

\* ceil(a / b) for b > 0
CeilDiv(a, b) == (a + b - 1) \div b

\* C22: for a word list of n words and a phoneme list of P phonemes, the
\* number of phonemes align_phonemes_to_words allocates to the k-th word
\* (0-based, in list order) is min(floor(P / max(1, number of text words)),
\* ceil(r / (n - k))) with r the number of phonemes not yet allocated; this
\* holds for every word list, including lists with two equal entries, and a
\* text with zero words is treated as one word.
C22_AllocationPerWord ==
    ( /\ align_pc = "aligned"
      /\ whisper_words # <<>>
      /\ ~align_words(phonemes, whisper_words, text).raised ) =>
        LET counts == align_words(phonemes, whisper_words, text).counts
            P == Len(phonemes)
            n == Len(whisper_words)
            target == P \div Max(1, Cardinality(WordStarts(text)))
        IN  /\ Len(counts) = n
            /\ \A k \in 0..(n - 1) :
                 LET r == P - SumSeq(SubSeq(counts, 1, k))
                 IN  counts[k + 1] = Min(target, CeilDiv(r, n - k))

-----------------------------------------------------------------------------
(* Properties of the tone decision tree *)

\* C23: classify_tone is a total decision tree evaluated in fixed priority
\* order and always returns one of the seven labels: (1) energy_mean > 0.15
\* and speaking_rate > 2.5 gives excited if pitch_var > 800 else energetic;
\* (2) otherwise energy_mean < 0.05 or speaking_rate < 1.0 gives monotone;
\* (3) otherwise pitch_mean > 200 and pitch_var > 500 gives expressive;
\* (4) otherwise speaking_rate < 1.5 and pitch_var < 300 gives calm;
\* (5) otherwise pitch_var > 1000 gives animated; (6) otherwise neutral.
C23_ToneDecisionTree ==
    audio_pc = "classified" =>
        /\ tone_label \in ToneLabels
        /\ ( /\ Readable(pitch_features, "mean")
             /\ Readable(pitch_features, "variance")
             /\ Readable(energy_features, "mean")
             /\ Readable(rhythm_features, "speaking_rate") ) =>
              LET pm == pitch_features["mean"]
                  pv == pitch_features["variance"]
                  em == energy_features["mean"]
                  sr == rhythm_features["speaking_rate"]
                  rule1 == RLt(<<15, 100>>, em) /\ RLt(<<25, 10>>, sr)
                  rule2 == RLt(em, <<5, 100>>) \/ RLt(sr, One)
                  rule3 == RLt(RInt(200), pm) /\ RLt(RInt(500), pv)
                  rule4 == RLt(sr, <<15, 10>>) /\ RLt(pv, RInt(300))
                  rule5 == RLt(RInt(1000), pv)
              IN  tone_label =
                    CASE rule1 /\ RLt(RInt(800), pv) -> "excited"
                      [] rule1 /\ ~RLt(RInt(800), pv) -> "energetic"
                      [] ~rule1 /\ rule2 -> "monotone"
                      [] ~rule1 /\ ~rule2 /\ rule3 -> "expressive"
                      [] ~rule1 /\ ~rule2 /\ ~rule3 /\ rule4 -> "calm"
                      [] ~rule1 /\ ~rule2 /\ ~rule3 /\ ~rule4 /\ rule5 -> "animated"
                      [] OTHER -> "neutral"

\* rule (2) wins over rule (3), whose condition holds as well
C23_Witness ==
    /\ audio_pc = "classified"
    /\ Readable(pitch_features, "mean") /\ Readable(pitch_features, "variance")
    /\ Readable(energy_features, "mean") /\ Readable(rhythm_features, "speaking_rate")
    /\ RLt(RInt(200), pitch_features["mean"])
    /\ RLt(RInt(500), pitch_features["variance"])
    /\ tone_label = "monotone"

-----------------------------------------------------------------------------
(* Properties of the event list of analyze_video_file *)

\* the events the frames 1..i of v are to give
RECURSIVE ExpectedEvents(_, _)
ExpectedEvents(v, i) ==
    IF i = 0 THEN <<>>
    ELSE LET start == Rat(i * v.fps[2], v.fps[1])
             step == Max(1, v.fps[1] \div (5 * v.fps[2]))
             end == RAdd(start, Rat(step * v.fps[2], v.fps[1]))
             lm == v.frames[i].multi_face_landmarks[1]
         IN  ExpectedEvents(v, i - 1)
               \o (IF SampledFace(v, i) /\ RLt(<<6, 10>>, calculate_smile_probability(lm))
                   THEN <<[start |-> start, end |-> end, tag |-> "smile"]>>
                   ELSE <<>>)
               \o (IF SampledFace(v, i) /\ RLt(<<7, 10>>, calculate_eye_contact_score(lm))
                   THEN <<[start |-> start, end |-> end, tag |-> "eye_contact"]>>
                   ELSE <<>>)

\* C24: in analyze_video_file with fps > 0, for every sampled frame that
\* yields landmarks a "smile" event is appended if and only if that frame's
\* smile probability is strictly greater than 0.6 and an "eye_contact" event
\* if and only if its eye-contact score is strictly greater than 0.7; each
\* event has start = frame_count/fps and end = start + sample_rate/fps, the
\* smile event of a frame precedes its eye_contact event, and the timestamps
\* list is in non-decreasing start order with start < end for every event.
C24_ThresholdEvents ==
    (video_pc \in {"loop", "returned"} /\ RLt(Zero, video.fps)) =>
        /\ timestamps = ExpectedEvents(video, frame_count)
        /\ \A k \in 1..Len(timestamps) : RLt(timestamps[k].start, timestamps[k].end)
        /\ \A k \in 1..(Len(timestamps) - 1) :
             RLe(timestamps[k].start, timestamps[k + 1].start)
        /\ (video_pc = "returned" /\ analyzed # <<>>) =>
              video_result.response.timestamps = timestamps

\* at 12.5 fps frame 2 is sampled: a face that smiles at the camera gives two
\* events two frames long, the smile first
C24_Witness ==
    /\ video_pc = "returned"
    /\ video.fps = <<25, 2>>
    /\ video_result.response.timestamps =
          << [start |-> <<4, 25>>, end |-> <<8, 25>>, tag |-> "smile"],
             [start |-> <<4, 25>>, end |-> <<8, 25>>, tag |-> "eye_contact"] >>

\* C29: analyze_video_file tolerates a capture that reports fps = 0: every
\* frame is sampled (sample_rate = 1), the frame index is used as the
\* timestamp, and for every sequence of per-frame scores, frames with smile
\* probability > 0.6 or eye-contact score > 0.7 included, the function returns
\* a response instead of raising.
C29_ZeroFpsTolerated ==
    (video.opened /\ video.fps = Zero) =>
        /\ video_pc # "raised"
        /\ video_pc = "returned" =>
              /\ video_result.status = "returned"
              /\ \A k \in 1..Len(video_result.response.timestamps) :
                   video_result.response.timestamps[k].start \in
                       {RInt(i) : i \in 1..Len(video.frames)}

-----------------------------------------------------------------------------
(* scenario_generation.py: the template-based scenario generator.  A        *)
(* description is a str (a sequence of one-character strings); tags is a    *)
(* list of tag names.                                                        *)

\* longest tag list of a request
MaxTags == 2

\* largest difficulty of a request
MaxDifficulty == 8

\* kw in s, for two str
Contains(s, kw) ==
    \E i \in 0..(Len(s) - Len(kw)) : SubSeq(s, i + 1, i + Len(kw)) = kw

\* any(tag in names for tag in tags)
AnyTagIn(tags, names) == \E k \in 1..Len(tags) : tags[k] \in names

KwFriend == <<"f", "r", "i", "e", "n", "d">>

KwPlayground == <<"p", "l", "a", "y", "g", "r", "o", "u", "n", "d">>

KwHelp == <<"h", "e", "l", "p">>

KwRequest == <<"r", "e", "q", "u", "e", "s", "t">>

KwEmotion == <<"e", "m", "o", "t", "i", "o", "n">>

KwFeeling == <<"f", "e", "e", "l", "i", "n", "g">>

\* determine_scenario_type with the description consulted before the tags
determine_scenario_type_keywords_first(description, tags) ==
    LET description_lower == Lower(description)
    IN  IF Contains(description_lower, KwFriend)
           \/ Contains(description_lower, KwPlayground)
        THEN "social_interaction"
        ELSE IF Contains(description_lower, KwHelp)
                \/ Contains(description_lower, KwRequest)
        THEN "help_request"
        ELSE IF Contains(description_lower, KwEmotion)
                \/ Contains(description_lower, KwFeeling)
        THEN "emotion_sharing"
        ELSE IF AnyTagIn(tags, {"greeting", "introduction"}) THEN "greeting"
        ELSE IF AnyTagIn(tags, {"storytelling", "narrative"}) THEN "storytelling"
        ELSE IF AnyTagIn(tags, {"question_answer", "interview"}) THEN "question_answer"
        ELSE "general_conversation"

\* lines 183-200
determine_scenario_type(description, tags) ==
    LET description_lower == Lower(description)
    IN  IF AnyTagIn(tags, {"greeting", "introduction"}) THEN "greeting"
        ELSE IF AnyTagIn(tags, {"storytelling", "narrative"}) THEN "storytelling"
        ELSE IF AnyTagIn(tags, {"question_answer", "interview"}) THEN "question_answer"
        ELSE IF Contains(description_lower, KwFriend)
                \/ Contains(description_lower, KwPlayground)
        THEN "social_interaction"
        ELSE IF Contains(description_lower, KwHelp)
                \/ Contains(description_lower, KwRequest)
        THEN "help_request"
        ELSE IF Contains(description_lower, KwEmotion)
                \/ Contains(description_lower, KwFeeling)
        THEN "emotion_sharing"
        ELSE "general_conversation"

\* lines 205-241: the first template of each archetype
title_templates ==
    [greeting |-> "Meeting a New Friend",
     storytelling |-> "Sharing Your Story",
     question_answer |-> "Questions and Answers",
     social_interaction |-> "Playing Together",
     help_request |-> "Asking for Help",
     emotion_sharing |-> "Sharing Feelings",
     general_conversation |-> "Conversation Practice"]

\* lines 202-247
generate_title(description, type) ==
    Get(title_templates, type, title_templates["general_conversation"])

\* lines 288-296
greetings ==
    [greeting |-> "Hi there! I'm excited to meet you today!",
     storytelling |-> "Hello! I can't wait to hear your story!",
     question_answer |-> "Hi! I have some fun questions for us to talk about!",
     social_interaction |-> "Hey! Want to chat and have some fun together?",
     help_request |-> "Hi! Let's practice asking for help when we need it!",
     emotion_sharing |-> "Hello! How are you feeling today?",
     general_conversation |->
         "Hi there! I'm excited to practice conversation with you today!"]

\* lines 285-298
get_greeting_message(type, target_age) ==
    Get(greetings, type, greetings["general_conversation"])

\* the model ScenarioStep (lines 18-23)
ScenarioStep(id, type, content, expected_response, hints) ==
    [id |-> id, type |-> type, content |-> content,
     expected_response |-> expected_response, hints |-> hints]

\* lines 300-320
generate_basic_steps(description, type) ==
    << ScenarioStep("main_topic", "avatar_ask", "What's your favorite thing to do?",
                    "hobby_response",
                    <<"Think about something you really enjoy!",
                      "Maybe a game, sport, or activity?">>),
       ScenarioStep("follow_up", "avatar_respond",
                    "That sounds really fun! Can you tell me more about it?",
                    "elaboration",
                    <<"Try to add more details!", "What do you like most about it?">>) >>

\* lines 322-349
generate_intermediate_steps(description, type) ==
    << ScenarioStep("main_topic", "avatar_ask",
                    "Tell me about something interesting that happened to you recently.",
                    "story_response",
                    <<"Think about your day or week", "What was exciting or different?">>),
       ScenarioStep("clarification", "avatar_ask",
                    "That's interesting! How did that make you feel?",
                    "emotion_response",
                    <<"Were you happy, excited, surprised?",
                      "It's okay to share your feelings!">>),
       ScenarioStep("connection", "avatar_respond",
                    "I can understand that feeling! Have you experienced something like that before?",
                    "comparison_response",
                    <<"Think about similar experiences",
                      "You can say yes or no and explain">>) >>

\* lines 351-385
generate_advanced_steps(description, type) ==
    << ScenarioStep("complex_topic", "avatar_ask",
                    "If you could solve one problem in the world, what would it be and why?",
                    "opinion_response",
                    <<"Think about things that bother you",
                      "What would make the world better?">>),
       ScenarioStep("reasoning", "avatar_ask",
                    "That's a thoughtful choice! How do you think we could start working on that?",
                    "solution_response",
                    <<"What steps could people take?", "How might you contribute?">>),
       ScenarioStep("perspective", "avatar_ask",
                    "What do you think other people might say about this topic?",
                    "perspective_response",
                    <<"Consider different viewpoints",
                      "Not everyone thinks the same way">>),
       ScenarioStep("reflection", "avatar_respond",
                    "You've shared some really interesting thoughts! What did you learn from our conversation?",
                    "reflection_response",
                    <<"What was new or surprising?",
                      "How do you feel about our discussion?">>) >>

\* lines 270-275 with the advanced tier given to difficulty 3 only
main_steps_three_only(description, difficulty, type) ==
    IF difficulty = 1 THEN generate_basic_steps(description, type)
    ELSE IF difficulty = 2 THEN generate_intermediate_steps(description, type)
    ELSE IF difficulty = 3 THEN generate_advanced_steps(description, type)
    ELSE <<>>

\* lines 270-275
main_steps(description, difficulty, type) ==
    IF difficulty = 1 THEN generate_basic_steps(description, type)
    ELSE IF difficulty = 2 THEN generate_intermediate_steps(description, type)
    ELSE IF difficulty >= 3 THEN generate_advanced_steps(description, type)
    ELSE <<>>

\* lines 249-283
generate_conversation_steps(description, difficulty, type, target_age) ==
    << ScenarioStep("greeting", "avatar_speak", get_greeting_message(type, target_age),
                    None,
                    <<"Try saying hello back!", "You can wave or say hi!">>) >>
    \o main_steps(description, difficulty, type)
    \o << ScenarioStep("conclusion", "avatar_speak",
                       "Thank you for practicing with me! You did a great job in our conversation.",
                       None, <<>>) >>

\* lines 82-106
generate_scenario_script(description, difficulty, tags, target_age) ==
    LET type == determine_scenario_type(description, tags)
    IN  [title |-> generate_title(description, type),
         description |-> description,
         difficulty |-> difficulty,
         tags |-> tags,
         steps |-> generate_conversation_steps(description, difficulty, type, target_age)]

\* the threshold of a level without the cap
threshold_uncapped(level, difficulty) ==
    RAdd(RAdd(<<3, 10>>, RMul(RInt(level - 1), <<1, 10>>)),
         RMul(RInt(difficulty - 1), <<1, 20>>))

\* lines 116-117 and 122: min(0.9, base_threshold + difficulty_adjustment)
threshold(level, difficulty) ==
    LET base_threshold == RAdd(<<3, 10>>, RMul(RInt(level - 1), <<1, 10>>))
        difficulty_adjustment == RMul(RInt(difficulty - 1), <<1, 20>>)
    IN  RMin(<<9, 10>>, RAdd(base_threshold, difficulty_adjustment))

\* lines 119-136
RubricLevel(level, difficulty) ==
    LET axis == [weight |-> <<1, 4>>, threshold |-> threshold(level, difficulty)]
    IN  [eye_contact |-> axis, speech_clarity |-> axis, engagement |-> axis,
         turn_taking |-> axis]

\* str(level) for the levels of range(1, 6)
LevelName == <<"1", "2", "3", "4", "5">>

\* lines 139-158
BaseFeedback ==
    [positive |->
        <<"Great job maintaining eye contact!",
          "Your speech was very clear!",
          "I can see you're really engaged in our conversation!",
          "Excellent turn-taking!",
          "You're doing wonderfully!",
          "I love how you're participating!",
          "Your responses show great understanding!">>,
     improvement |->
        <<"Try to look at me a bit more during our conversation",
          "Take your time and speak clearly",
          "Show me you're interested by asking questions too",
          "Remember to wait for me to finish before responding",
          "Let's practice speaking a little louder",
          "Try to give more detailed responses",
          "Great effort! Let's keep practicing together">>]

\* lines 161-179
feedback_for(tags) ==
    LET eye == AnyTagIn(tags, {"eye_contact"})
        turn == AnyTagIn(tags, {"turn_taking"})
    IN  [positive |->
            BaseFeedback.positive
            \o (IF eye THEN <<"Amazing eye contact! You're looking right at me!",
                              "I can tell you're really focused on our conversation!">>
                ELSE <<>>)
            \o (IF turn THEN <<"Perfect timing! You waited for me to finish!",
                               "Great job taking turns in our conversation!">>
                ELSE <<>>),
         improvement |->
            BaseFeedback.improvement
            \o (IF eye THEN <<"Remember to look at my face while we talk",
                              "Try to look at me when you're speaking">>
                ELSE <<>>)
            \o (IF turn THEN <<"Let's practice waiting for each other to finish talking",
                               "Remember: listen, then respond">>
                ELSE <<>>)]

\* lines 108-181
generate_scenario_rubric(difficulty, tags) ==
    [levels |-> [name \in {LevelName[l] : l \in 1..5} |->
                    RubricLevel(CHOOSE l \in 1..5 : LevelName[l] = name, difficulty)],
     feedback |-> feedback_for(tags)]

TagNames ==
    {"greeting", "introduction", "storytelling", "narrative", "question_answer",
     "interview", "eye_contact", "turn_taking"}

TagLists == SeqsUpTo(TagNames, MaxTags)

\* descriptions: none, no keyword, each keyword (in capitals, inside a longer
\* word, or as written), a near miss, and keywords of two archetypes at once
Descriptions ==
    { <<>>,
      <<"t", "a", "l", "k">>,
      <<"F", "r", "i", "e", "n", "d", "s">>,
      <<"a", " ">> \o KwPlayground,
      <<"H", "E", "L", "P", "!">>,
      KwRequest,
      KwEmotion \o <<"s">>,
      <<"F", "e", "e", "l", "i", "n", "g">>,
      <<"f", "r", "i", "e", "d">>,
      KwFeeling \o <<" ">> \o KwHelp \o <<" ">> \o KwFriend,
      KwEmotion \o <<" ">> \o KwRequest }

\* Optional[int]: <<>> is the default None of the request model (line 16), <<8>>
\* a target age of 8
TargetAges == {<<>>, <<8>>}

\* requests with the default difficulty and target age under every tag list,
\* and requests of every difficulty and target age under at most one tag
ScenarioRequests ==
    { [text |-> d, difficulty |-> 1, tags |-> t, target_age |-> <<>>] :
        d \in Descriptions, t \in TagLists }
    \cup
    { [text |-> d, difficulty |-> k, tags |-> t, target_age |-> a] :
        d \in Descriptions, k \in 0..MaxDifficulty,
        t \in {q \in TagLists : Len(q) <= 1}, a \in TargetAges }

InitScenario ==
    /\ scenario_request \in ScenarioRequests
    /\ scenario_type = None
    /\ script = None
    /\ rubric = None
    /\ scenario_pc = "received"
    /\ IdleAlignment /\ IdleAggregate /\ IdleLandmarks /\ IdleAudio /\ IdleEmotion /\ IdleVideo /\ IdleService /\ IdleExtract /\ IdlePool

\* line 93, a call of determine_scenario_type
DetermineScenarioType ==
    /\ scenario_pc = "received"
    /\ scenario_type' =
          determine_scenario_type(scenario_request.text, scenario_request.tags)
    /\ scenario_pc' = "typed"
    /\ UNCHANGED <<scenario_request, script, rubric>>
    /\ UNCHANGED <<alignVars, aggregateVars, landmarkVars, audioVars, emotionVars, videoVars, serviceVars, extractVars, poolVars>>

\* lines 61-66, the call of generate_scenario_script
GenerateScenarioScript ==
    /\ scenario_pc = "typed"
    /\ script' = generate_scenario_script(scenario_request.text,
                                          scenario_request.difficulty,
                                          scenario_request.tags,
                                          scenario_request.target_age)
    /\ scenario_pc' = "scripted"
    /\ UNCHANGED <<scenario_request, scenario_type, rubric>>
    /\ UNCHANGED <<alignVars, aggregateVars, landmarkVars, audioVars, emotionVars, videoVars, serviceVars, extractVars, poolVars>>

\* line 69, the call of generate_scenario_rubric
GenerateScenarioRubric ==
    /\ scenario_pc = "scripted"
    /\ rubric' = generate_scenario_rubric(scenario_request.difficulty,
                                          scenario_request.tags)
    /\ scenario_pc' = "generated"
    /\ UNCHANGED <<scenario_request, scenario_type, script>>
    /\ UNCHANGED <<alignVars, aggregateVars, landmarkVars, audioVars, emotionVars, videoVars, serviceVars, extractVars, poolVars>>

NextScenario ==
    \/ DetermineScenarioType
    \/ GenerateScenarioScript
    \/ GenerateScenarioRubric

SpecScenario == InitScenario /\ [][NextScenario]_vars

-----------------------------------------------------------------------------
(* Properties of the scenario generator *)

\* the description contains kw in some mix of upper and lower case
Mentions(description, kw) ==
    \E i \in 1..Len(description) : \E j \in i..Len(description) :
        Lower(SubSeq(description, i, j)) = kw

\* C25: determine_scenario_type is deterministic and chooses by fixed
\* priority, independent of the order of the tags: a greeting/introduction
\* tag gives greeting; else a storytelling/narrative tag gives storytelling;
\* else a question_answer/interview tag gives question_answer; else a
\* description containing "friend" or "playground" (case-insensitive) gives
\* social_interaction; else "help" or "request" gives help_request; else
\* "emotion" or "feeling" gives emotion_sharing; else general_conversation.
\* Any matching tag wins over every description keyword.
C25_ScenarioTypePriority ==
    scenario_pc \in {"typed", "scripted", "generated"} =>
        LET tags == {scenario_request.tags[k] : k \in 1..Len(scenario_request.tags)}
            d == scenario_request.text
        IN  scenario_type =
              CASE tags \cap {"greeting", "introduction"} # {} -> "greeting"
                [] tags \cap {"greeting", "introduction"} = {}
                   /\ tags \cap {"storytelling", "narrative"} # {} -> "storytelling"
                [] tags \cap {"greeting", "introduction", "storytelling", "narrative"} = {}
                   /\ tags \cap {"question_answer", "interview"} # {} -> "question_answer"
                [] OTHER ->
                     IF Mentions(d, KwFriend) \/ Mentions(d, KwPlayground)
                     THEN "social_interaction"
                     ELSE IF Mentions(d, KwHelp) \/ Mentions(d, KwRequest)
                     THEN "help_request"
                     ELSE IF Mentions(d, KwEmotion) \/ Mentions(d, KwFeeling)
                     THEN "emotion_sharing"
                     ELSE "general_conversation"

\* a greeting tag listed after an interview tag, under a description that
\* mentions a friend
C25_Witness ==
    /\ scenario_pc = "typed"
    /\ scenario_request.tags = <<"interview", "greeting">>
    /\ Mentions(scenario_request.text, KwFriend)
    /\ scenario_type = "greeting"

\* the steps between the first and the last
Between(steps) == SubSeq(steps, 2, Len(steps) - 1)

\* C26: for every description, tag list, target_age and difficulty in
\* {1, 2, >= 3}, generate_conversation_steps returns a sequence whose first
\* step has id "greeting" (content = the archetype's greeting line) and whose
\* last step has id "conclusion", with the tier's hardcoded steps in between:
\* 2 steps for difficulty 1, 3 for difficulty 2, 4 for difficulty >= 3; the
\* steps in between depend only on the difficulty tier, not on description,
\* tags, archetype or target_age.
C26_ScriptShape ==
    ( /\ scenario_pc \in {"scripted", "generated"}
      /\ scenario_request.difficulty >= 1 ) =>
        LET steps == script.steps
            tier == Min(scenario_request.difficulty, 3)
            reference ==
                generate_conversation_steps(<<>>, tier, "general_conversation", <<>>)
        IN  /\ Len(steps) = tier + 3
            /\ steps[1].id = "greeting"
            /\ steps[1].content = greetings[scenario_type]
            /\ steps[Len(steps)].id = "conclusion"
            /\ Between(steps) = Between(reference)
            /\ \A k \in 2..(Len(steps) - 1) : steps[k].id \notin {"greeting", "conclusion"}

\* difficulty 5 under a tag, a keyword and a target age: the four advanced steps
C26_Witness ==
    /\ scenario_pc = "scripted"
    /\ scenario_request.difficulty = 5
    /\ scenario_request.tags = <<"narrative">>
    /\ scenario_request.target_age = <<8>>
    /\ Mentions(scenario_request.text, KwHelp)
    /\ Len(script.steps) = 6
    /\ script.steps[2].id = "complex_topic"
    /\ script.steps[1].content = "Hello! I can't wait to hear your story!"

\* C27: for every difficulty d >= 1 and every tag list,
\* generate_scenario_rubric returns exactly the levels "1".."5"; in level l
\* each of the four axes has weight 0.25 and threshold
\* min(0.9, 0.3 + 0.1*(l-1) + 0.05*(d-1)), so the four weights sum to 1, no
\* threshold exceeds 0.9, and the threshold of level l+1 is greater than that
\* of level l unless both are capped at 0.9.
C27_RubricLevels ==
    (scenario_pc = "generated" /\ scenario_request.difficulty >= 1) =>
        LET d == scenario_request.difficulty
            name == [l \in 1..5 |-> CASE l = 1 -> "1" [] l = 2 -> "2" [] l = 3 -> "3"
                                      [] l = 4 -> "4" [] l = 5 -> "5"]
            axes == {"eye_contact", "speech_clarity", "engagement", "turn_taking"}
            t(l) == rubric.levels[name[l]]["eye_contact"]["threshold"]
        IN  /\ DOMAIN rubric.levels = {"1", "2", "3", "4", "5"}
            /\ \A l \in 1..5 :
                 /\ DOMAIN rubric.levels[name[l]] = axes
                 /\ \A a \in axes :
                      /\ rubric.levels[name[l]][a]["weight"] = <<1, 4>>
                      /\ rubric.levels[name[l]][a]["threshold"] =
                            RMin(<<9, 10>>, Rat(6 + 2 * (l - 1) + (d - 1), 20))
                      /\ RLe(rubric.levels[name[l]][a]["threshold"], <<9, 10>>)
                 /\ RSum(<<rubric.levels[name[l]]["eye_contact"]["weight"],
                           rubric.levels[name[l]]["speech_clarity"]["weight"],
                           rubric.levels[name[l]]["engagement"]["weight"],
                           rubric.levels[name[l]]["turn_taking"]["weight"]>>) = One
            /\ \A l \in 1..4 :
                 \/ RLt(t(l), t(l + 1))
                 \/ (t(l) = <<9, 10>> /\ t(l + 1) = <<9, 10>>)

\* difficulty 7: level 3 stays below the cap, levels 4 and 5 are both capped
C27_Witness ==
    /\ scenario_pc = "generated"
    /\ scenario_request.difficulty = 7
    /\ scenario_request.tags = <<"turn_taking">>
    /\ rubric.levels["3"]["turn_taking"]["threshold"] = <<4, 5>>
    /\ rubric.levels["4"]["turn_taking"]["threshold"] = <<9, 10>>
    /\ rubric.levels["5"]["turn_taking"]["threshold"] = <<9, 10>>

-----------------------------------------------------------------------------
(* The event loop and the thread pool.  The handlers are coroutines of one  *)
(* event loop: between two awaits a coroutine runs on the loop's thread and  *)
(* no other coroutine does.  ModelManager.executor is a ThreadPoolExecutor   *)
(* of two workers whose threads run beside the loop's thread.                *)

\* requests in flight at once
MaxRequests == 3

\* ThreadPoolExecutor(max_workers=2), line 18
max_workers == 2

\* the endpoints by what their handler computes
RequestKinds == {"audio", "video", "align", "stt"}

\* what the thread of the event loop is executing
Free == [running |-> "nothing", id |-> 0]

OnLoop(r) == [running |-> "request", id |-> r]

Cleaning == [running |-> "cleanup", id |-> 0]

\* a callable submitted to the executor: where it stands, and the value of
\* self.whisper_model its body read
Task(state, model) == [state |-> state, model |-> model]

NotSubmitted == Task("none", "unread")

Running == {r \in DOMAIN executor : executor[r].state = "running"}

InitPool ==
    /\ request_kind \in [1..MaxRequests -> RequestKinds]
    /\ handler_pc = [r \in 1..MaxRequests |-> "new"]
    /\ event_loop = Free
    /\ whisper_model = "loaded"
    /\ executor = [r \in 1..MaxRequests |-> NotSubmitted]
    /\ cleanup_pc = "not_started"
    /\ IdleAlignment /\ IdleAggregate /\ IdleLandmarks /\ IdleAudio /\ IdleEmotion /\ IdleVideo /\ IdleService /\ IdleExtract /\ IdleScenario

\* the loop starts the handler of a request.  analyze_audio_file
\* (audio_analysis.py lines 111-142) and analyze_video_file (video_analysis.py
\* lines 107-236) hold no await: they are run on the thread of the loop.
\* transcribe_audio_file and align_text_audio begin with transcribe_audio.
StartRequest(r) ==
    /\ event_loop = Free
    /\ handler_pc[r] = "new"
    /\ event_loop' = OnLoop(r)
    /\ handler_pc' = [handler_pc EXCEPT ![r] =
                         IF request_kind[r] \in {"audio", "video"}
                         THEN "heuristics" ELSE "transcribe"]
    /\ UNCHANGED <<request_kind, whisper_model, executor, cleanup_pc>>
    /\ UNCHANGED <<alignVars, aggregateVars, landmarkVars, audioVars, emotionVars, videoVars, serviceVars, extractVars, scenarioVars>>

\* the synchronous computation of a handler ends and the handler returns
FinishHeuristics(r) ==
    /\ event_loop = OnLoop(r)
    /\ handler_pc[r] = "heuristics"
    /\ handler_pc' = [handler_pc EXCEPT ![r] = "done"]
    /\ event_loop' = Free
    /\ UNCHANGED <<request_kind, whisper_model, executor, cleanup_pc>>
    /\ UNCHANGED <<alignVars, aggregateVars, landmarkVars, audioVars, emotionVars, videoVars, serviceVars, extractVars, scenarioVars>>

\* transcribe_audio, lines 135-150: RuntimeError without a model (the caller
\* answers with its fallback), else the closure is submitted and the coroutine
\* awaits its future
TranscribeAudio(r) ==
    /\ event_loop = OnLoop(r)
    /\ handler_pc[r] = "transcribe"
    /\ IF whisper_model = None
       THEN /\ handler_pc' = [handler_pc EXCEPT ![r] = "fallback"]
            /\ UNCHANGED executor
       ELSE /\ handler_pc' = [handler_pc EXCEPT ![r] = "awaiting"]
            /\ executor' = [executor EXCEPT ![r] = Task("queued", "unread")]
    /\ event_loop' = Free
    /\ UNCHANGED <<request_kind, whisper_model, cleanup_pc>>
    /\ UNCHANGED <<alignVars, aggregateVars, landmarkVars, audioVars, emotionVars, videoVars, serviceVars, extractVars, scenarioVars>>

\* a worker thread takes a queued callable and enters transcribe() (lines
\* 140-146), which reads self.whisper_model: on None the attribute access
\* raises AttributeError
StartTask(r) ==
    /\ executor[r].state = "queued"
    /\ Cardinality(Running) < max_workers
    /\ executor' = [executor EXCEPT ![r] =
                       IF whisper_model = None
                       THEN Task("raised", whisper_model)
                       ELSE Task("running", whisper_model)]
    /\ UNCHANGED <<request_kind, handler_pc, event_loop, whisper_model, cleanup_pc>>
    /\ UNCHANGED <<alignVars, aggregateVars, landmarkVars, audioVars, emotionVars, videoVars, serviceVars, extractVars, scenarioVars>>

\* the transcription of a worker thread returns
FinishTask(r) ==
    /\ executor[r].state = "running"
    /\ executor' = [executor EXCEPT ![r].state = "finished"]
    /\ UNCHANGED <<request_kind, handler_pc, event_loop, whisper_model, cleanup_pc>>
    /\ UNCHANGED <<alignVars, aggregateVars, landmarkVars, audioVars, emotionVars, videoVars, serviceVars, extractVars, scenarioVars>>

\* the loop resumes a coroutine whose future is done: with the result, the
\* rest of the handler (stt.py lines 124-152, alignment.py lines 126-162) runs
\* on the thread of the loop; with the exception, its except branch answers
ResumeRequest(r) ==
    /\ event_loop = Free
    /\ handler_pc[r] = "awaiting"
    /\ executor[r].state \in {"finished", "raised"}
    /\ IF executor[r].state = "raised"
       THEN /\ handler_pc' = [handler_pc EXCEPT ![r] = "fallback"]
            /\ UNCHANGED event_loop
       ELSE /\ handler_pc' = [handler_pc EXCEPT ![r] = "heuristics"]
            /\ event_loop' = OnLoop(r)
    /\ UNCHANGED <<request_kind, whisper_model, executor, cleanup_pc>>
    /\ UNCHANGED <<alignVars, aggregateVars, landmarkVars, audioVars, emotionVars, videoVars, serviceVars, extractVars, scenarioVars>>

\* cleanup, lines 159-168: the models are cleared, then the loop's thread
\* blocks in executor.shutdown(wait=True)
Cleanup ==
    /\ event_loop = Free
    /\ cleanup_pc = "not_started"
    /\ whisper_model' = None
    /\ cleanup_pc' = "shutdown"
    /\ event_loop' = Cleaning
    /\ UNCHANGED <<request_kind, handler_pc, executor>>
    /\ UNCHANGED <<alignVars, aggregateVars, landmarkVars, audioVars, emotionVars, videoVars, serviceVars, extractVars, scenarioVars>>

\* shutdown(wait=True) returns once every submitted callable has ended
\* (lines 168-174)
ShutdownReturns ==
    /\ cleanup_pc = "shutdown"
    /\ \A r \in DOMAIN executor : executor[r].state \notin {"queued", "running"}
    /\ cleanup_pc' = "returned"
    /\ event_loop' = Free
    /\ UNCHANGED <<request_kind, handler_pc, whisper_model, executor>>
    /\ UNCHANGED <<alignVars, aggregateVars, landmarkVars, audioVars, emotionVars, videoVars, serviceVars, extractVars, scenarioVars>>

NextPool ==
    \/ \E r \in 1..MaxRequests :
         \/ StartRequest(r)
         \/ FinishHeuristics(r)
         \/ TranscribeAudio(r)
         \/ StartTask(r)
         \/ FinishTask(r)
         \/ ResumeRequest(r)
    \/ Cleanup
    \/ ShutdownReturns

SpecPool == InitPool /\ [][NextPool]_vars

-----------------------------------------------------------------------------
(* Properties of the event loop and the thread pool *)

\* C28: the heuristic computations of a request (feature extraction,
\* scoring, aggregation, alignment) run on the bounded worker pool (at most 2
\* workers) and never on the single-threaded request dispatcher, so while one
\* request's computation is in flight the dispatcher can still accept and
\* start another request.
C28_HeuristicsOffTheLoop ==
    /\ Cardinality(Running) <= 2
    /\ \A r \in 1..MaxRequests :
         handler_pc[r] = "heuristics" => event_loop = Free

\* C30: under every interleaving of transcribe_audio calls with cleanup(), a
\* transcription that passed the "Whisper model not initialized" check runs
\* against a loaded model: no task queued on the 2-worker pool starts
\* executing after cleanup() has set whisper_model to None, and cleanup()
\* returns only after all submitted transcriptions have finished.
C30_TranscriptionSeesModel ==
    /\ \A r \in 1..MaxRequests :
         executor[r].state \in {"running", "finished", "raised"} =>
             executor[r].model = "loaded"
    /\ cleanup_pc = "returned" =>
          \A r \in 1..MaxRequests : executor[r].state \notin {"queued", "running"}

====
